---- MODULE Spec2Model ----
(***************************************************************************)
(* A model of the poon-server storage engine: the in-memory key/value      *)
(* backend, the content-addressable object store, the version manager,     *)
(* and the repository operations built on them (path reads, filesystem     *)
(* snapshots, patch application with copy-on-write tree rewriting).        *)
(*                                                                         *)
(* Byte strings (file contents, paths, patch lines, entry names) are       *)
(* sequences of one-character strings.  A SHA-256 digest is modelled as    *)
(* the collision-free digest of its preimage: a hash value records what    *)
(* was hashed and is only ever compared for equality; an object's content  *)
(* is always obtained through the backend, never out of a hash.            *)
(***************************************************************************)
EXTENDS Integers, Sequences, FiniteSets, TLC

VARIABLES
    data,    \* MemoryBackend.data: key -> stored bytes
    clock,   \* what time.Now() returns
    last,    \* the last completed call: operation, input, result, backend before it
    procs    \* the in-flight calls of the concurrent callers

vars == <<data, clock, last, procs>>

----------------------------------------------------------------------------
(* Bounds of the model *)

MaxVersion == 2
MaxClock == 1
MaxCalls == 2
MaxCallsWithReader == 1

\* a local variable: Body applied to the value bound to it
With(v, Body(_)) == Body(v)

----------------------------------------------------------------------------
(* Types: object types, hashes, backend keys *)

ObjectTypeBlob == "blob"
ObjectTypeTree == "tree"
ObjectTypeCommit == "commit"

\* A byte that cannot occur in valid UTF-8, and the character U+FFFD
InvalidByte == "<ff>"
ReplacementChar == "<fffd>"

\* json.Marshal of a Go string: the string coerced to valid UTF-8, every
\* invalid byte replaced by U+FFFD.  json.Unmarshal gives the coerced string.
JSONString(s) ==
    [i \in 1..Len(s) |-> IF s[i] = InvalidByte THEN ReplacementChar ELSE s[i]]
JSONTreeEntry(entry) == [entry EXCEPT !.Name = JSONString(entry.Name)]
JSONCommit(commit) ==
    [commit EXCEPT !.Author = JSONString(commit.Author),
                   !.Message = JSONString(commit.Message)]

\* The content of an Object: raw bytes for a blob, the JSON of a TreeObject
\* (its entry list) for a tree, the JSON of a CommitObject for a commit.
\* The JSON text is represented by the structure json.Unmarshal reads out
\* of it.
BlobContent(bytes) == [blob |-> bytes, tree |-> <<>>, commit |-> <<>>]
TreeContent(entries) ==
    [blob |-> <<>>, tree |-> [i \in 1..Len(entries) |-> JSONTreeEntry(entries[i])],
     commit |-> <<>>]
CommitContent(commit) == [blob |-> <<>>, tree |-> <<>>, commit |-> <<JSONCommit(commit)>>]
NoContent == [blob |-> <<>>, tree |-> <<>>, commit |-> <<>>]

\* len(content) of an Object's content
ContentLen(content) == Len(content.blob) + Len(content.tree) + Len(content.commit)

\* A hash given by a caller as a string of characters
LiteralHash(chars) ==
    [hex |-> FALSE,
     pre |-> [type |-> "literal", size |-> Len(chars), content |-> BlobContent(chars)]]
\* A string that is not 64 hex characters (the tests pass "commit1hash")
OpaqueHash(name) == [hex |-> FALSE, pre |-> [type |-> name, size |-> 0, content |-> NoContent]]
\* A well-formed digest of something that was never stored
ForeignHash(name) == [hex |-> TRUE, pre |-> [type |-> name, size |-> 0, content |-> NoContent]]
NoHash == OpaqueHash("")

\* Backend keys: "objects/<hash>", "version/current", "version/info/<n>",
\* "version/hash/<hash>"
ObjectKey(h) == [ns |-> "objects/", n |-> 0, h |-> h]
CurrentKey == [ns |-> "version/current", n |-> 0, h |-> NoHash]
InfoKey(n) == [ns |-> "version/info/", n |-> n, h |-> NoHash]
HashKey(h) == [ns |-> "version/hash/", n |-> 0, h |-> h]

----------------------------------------------------------------------------
(* MemoryBackend *)

Exists(d, key) == key \in DOMAIN d

\* Put returns the new map
Put(d, key, bytes) == [k \in DOMAIN d \cup {key} |-> IF k = key THEN bytes ELSE d[k]]

\* Get returns the bytes or "key not found"
Get(d, key) ==
    IF key \in DOMAIN d THEN [err |-> "", bytes |-> <<d[key]>>]
    ELSE [err |-> "key not found", bytes |-> <<>>]

\* Delete returns the new map, or "key not found" and the map as it was
Delete(d, key) ==
    IF key \in DOMAIN d
    THEN [err |-> "", d |-> [k \in DOMAIN d \ {key} |-> d[k]]]
    ELSE [err |-> "key not found", d |-> d]

List(d, prefix) == {k \in DOMAIN d : k.ns = prefix}

\* A sequence of Puts, applied in order
RECURSIVE PutAll(_, _)
PutAll(d, puts) ==
    IF puts = <<>> THEN d
    ELSE PutAll(Put(d, Head(puts).key, Head(puts).bytes), Tail(puts))

----------------------------------------------------------------------------
(* Hasher *)

ComputeObjectHash(objType, content) ==
    [hex |-> TRUE, pre |-> [type |-> objType, size |-> ContentLen(content), content |-> content]]

\* len(hash) != 64
HashLen == 64
HexChars == {"0", "1", "2", "3", "4", "5", "6", "7", "8", "9",
             "a", "b", "c", "d", "e", "f", "A", "B", "C", "D", "E", "F"}
\* what hex.DecodeString accepts
IsHexChar(c) == c \in HexChars

\* a check of the length alone
ValidateHashLength(hash) ==
    IF hash.hex THEN ""
    ELSE IF Len(hash.pre.content.blob) # HashLen THEN "invalid hash"
    ELSE ""

\* a digest is hex.EncodeToString of a SHA-256 sum, 64 hex characters; any
\* other hash is the string of characters the caller gave
ValidateHash(hash) ==
    IF hash.hex THEN ""
    ELSE IF Len(hash.pre.content.blob) # HashLen THEN "invalid hash"
    ELSE IF \E i \in 1..HashLen : ~IsHexChar(hash.pre.content.blob[i]) THEN "invalid hash"
    ELSE ""

VerifyObject(obj) ==
    IF ValidateHash(obj.hash) # "" THEN "invalid object hash"
    ELSE IF ComputeObjectHash(obj.type, obj.content) # obj.hash THEN "object hash mismatch"
    ELSE ""

CreateObject(objType, content) ==
    [hash |-> ComputeObjectHash(objType, content), type |-> objType,
     size |-> ContentLen(content), content |-> content]

----------------------------------------------------------------------------
(* ContentStore *)

\* Store: the Put it issues (verification of a freshly created object passes)
Store(obj) == [key |-> ObjectKey(obj.hash), bytes |-> obj]

StoreBlob(bytes) == Store(CreateObject(ObjectTypeBlob, BlobContent(bytes)))
StoreTree(entries) == Store(CreateObject(ObjectTypeTree, TreeContent(entries)))
StoreCommit(commit) == Store(CreateObject(ObjectTypeCommit, CommitContent(commit)))

\* a Store that refuses an object whose key is already in the backend
CSStoreOnce(d, obj) ==
    IF VerifyObject(obj) # "" \/ Exists(d, ObjectKey(obj.hash))
    THEN [err |-> "object verification failed", hash |-> NoHash, d |-> d, calls |-> 0]
    ELSE [err |-> "", hash |-> obj.hash, d |-> PutAll(d, <<Store(obj)>>), calls |-> 1]

\* Store run to completion on backend d; calls counts the backend calls issued
CSStore(d, obj) ==
    IF VerifyObject(obj) # ""
    THEN [err |-> "object verification failed", hash |-> NoHash, d |-> d, calls |-> 0]
    ELSE [err |-> "", hash |-> obj.hash, d |-> PutAll(d, <<Store(obj)>>), calls |-> 1]

CSGet(d, hash) ==
    IF ValidateHash(hash) # "" THEN [err |-> "invalid hash", obj |-> <<>>, calls |-> 0]
    ELSE With(Get(d, ObjectKey(hash)), LAMBDA r :
         IF r.err # "" THEN [err |-> "object not found", obj |-> <<>>, calls |-> 1]
         ELSE IF VerifyObject(r.bytes[1]) # ""
              THEN [err |-> "stored object verification failed", obj |-> <<>>, calls |-> 1]
              ELSE [err |-> "", obj |-> r.bytes, calls |-> 1])

CSExists(d, hash) ==
    IF ValidateHash(hash) # "" THEN [err |-> "invalid hash", exists |-> FALSE, calls |-> 0]
    ELSE [err |-> "", exists |-> Exists(d, ObjectKey(hash)), calls |-> 1]

CSDelete(d, hash) ==
    IF ValidateHash(hash) # "" THEN [err |-> "invalid hash", d |-> d, calls |-> 0]
    ELSE With(Delete(d, ObjectKey(hash)), LAMBDA r :
         [err |-> r.err, d |-> r.d, calls |-> 1])

GetBlob(d, hash) ==
    With(CSGet(d, hash), LAMBDA r :
    IF r.err # "" THEN [err |-> r.err, content |-> <<>>]
    ELSE IF r.obj[1].type # ObjectTypeBlob THEN [err |-> "object is not a blob", content |-> <<>>]
    ELSE [err |-> "", content |-> r.obj[1].content.blob])

\* a GetTree that does not look at the declared type
GetTreeUnchecked(d, hash) ==
    With(CSGet(d, hash), LAMBDA r :
    IF r.err # "" THEN [err |-> r.err, entries |-> <<>>]
    ELSE [err |-> "", entries |-> r.obj[1].content.tree])

GetTree(d, hash) ==
    With(CSGet(d, hash), LAMBDA r :
    IF r.err # "" THEN [err |-> r.err, entries |-> <<>>]
    ELSE IF r.obj[1].type # ObjectTypeTree THEN [err |-> "object is not a tree", entries |-> <<>>]
    ELSE [err |-> "", entries |-> r.obj[1].content.tree])

GetCommit(d, hash) ==
    With(CSGet(d, hash), LAMBDA r :
    IF r.err # "" THEN [err |-> r.err, commit |-> <<>>]
    ELSE IF r.obj[1].type # ObjectTypeCommit THEN [err |-> "object is not a commit", commit |-> <<>>]
    ELSE [err |-> "", commit |-> r.obj[1].content.commit])

----------------------------------------------------------------------------
(* VersionManager *)

\* version/current holds strconv.FormatInt(n, 10); ParseInt gives n back
GetCurrentVersion(d) ==
    With(Get(d, CurrentKey), LAMBDA r : IF r.err # "" THEN 0 ELSE r.bytes[1])

GetVersionInfo(d, version) ==
    With(Get(d, InfoKey(version)), LAMBDA r :
    IF r.err # "" THEN [err |-> "version not found", info |-> <<>>]
    ELSE [err |-> "", info |-> r.bytes])

GetLatestVersionInfo(d) ==
    With(GetCurrentVersion(d), LAMBDA currentVersion :
    IF currentVersion = 0 THEN [err |-> "no versions exist", info |-> <<>>]
    ELSE GetVersionInfo(d, currentVersion))

GetVersionByCommit(d, commitHash) ==
    With(Get(d, HashKey(commitHash)), LAMBDA r :
    IF r.err # "" THEN [err |-> "commit hash not found", version |-> 0]
    ELSE [err |-> "", version |-> r.bytes[1]])

NewVersionInfo(version, commitHash, now, message) ==
    [Version |-> version, CommitHash |-> commitHash, Timestamp |-> now, Message |-> message]

\* CreateVersion that forgets to advance: it writes at the current version
CreateVersionPutsNoAdvance(currentVersion, commitHash, message, now) ==
    << [key |-> InfoKey(currentVersion),
        bytes |-> [Version |-> currentVersion, CommitHash |-> commitHash,
                   Timestamp |-> now, Message |-> message]],
       [key |-> CurrentKey, bytes |-> currentVersion],
       [key |-> HashKey(commitHash), bytes |-> currentVersion] >>

\* CreateVersion that stores the info and the hash mapping of the new version
\* but leaves version/current at the version it read
CreateVersionPutsNoCurrent(currentVersion, commitHash, message, now) ==
    << [key |-> InfoKey(currentVersion + 1),
        bytes |-> [Version |-> currentVersion + 1, CommitHash |-> commitHash,
                   Timestamp |-> now, Message |-> message]],
       [key |-> CurrentKey, bytes |-> currentVersion],
       [key |-> HashKey(commitHash), bytes |-> currentVersion + 1] >>

\* CreateVersion that makes the new version current before it stores its info
CreateVersionPutsCurrentFirst(currentVersion, commitHash, message, now) ==
    << [key |-> CurrentKey, bytes |-> currentVersion + 1],
       [key |-> InfoKey(currentVersion + 1),
        bytes |-> [Version |-> currentVersion + 1, CommitHash |-> commitHash,
                   Timestamp |-> now, Message |-> message]],
       [key |-> HashKey(commitHash), bytes |-> currentVersion + 1] >>

\* The three Puts of CreateVersion, in the order it issues them, given the
\* current version it read
CreateVersionPuts(currentVersion, commitHash, message, now) ==
    LET newVersion == currentVersion + 1 IN
    << [key |-> InfoKey(newVersion),
        bytes |-> NewVersionInfo(newVersion, commitHash, now, message)],
       [key |-> CurrentKey, bytes |-> newVersion],
       [key |-> HashKey(commitHash), bytes |-> newVersion] >>

\* CreateVersion run to completion on backend d
CreateVersion(d, commitHash, message, now) ==
    With(GetCurrentVersion(d), LAMBDA cur :
    [err |-> "",
     info |-> <<NewVersionInfo(cur + 1, commitHash, now, message)>>,
     d |-> PutAll(d, CreateVersionPuts(cur, commitHash, message, now))])

\* DeleteVersion run to completion on backend d
DeleteVersion(d, version) ==
    With(GetVersionInfo(d, version), LAMBDA gi :
    IF gi.err # "" THEN [err |-> "version not found", d |-> d]
    ELSE
    With(Delete(d, InfoKey(version)), LAMBDA d1 :
    IF d1.err # "" THEN [err |-> "failed to delete version info", d |-> d1.d]
    ELSE
    With(Delete(d1.d, HashKey(gi.info[1].CommitHash)), LAMBDA d2 :
    IF d2.err # "" THEN [err |-> "failed to delete commit hash mapping", d |-> d2.d]
    ELSE IF version = GetCurrentVersion(d2.d)
    THEN [err |-> "",
          d |-> Put(d2.d, CurrentKey, IF version - 1 < 1 THEN 0 ELSE version - 1)]
    ELSE [err |-> "", d |-> d2.d])))

\* ListVersions' first half: the stored version numbers
StoredVersions(d) == {k.n : k \in List(d, "version/info/")}

\* the version numbers in ascending order
RECURSIVE SortAscending(_)
SortAscending(versions) ==
    IF versions = {} THEN <<>>
    ELSE With(CHOOSE v \in versions : \A w \in versions : v <= w, LAMBDA least :
         <<least>> \o SortAscending(versions \ {least}))

\* sort.Slice(versions, func(i, j int) bool { return versions[i] > versions[j] })
RECURSIVE SortDescending(_)
SortDescending(versions) ==
    IF versions = {} THEN <<>>
    ELSE With(CHOOSE v \in versions : \A w \in versions : v >= w, LAMBDA newest :
         <<newest>> \o SortDescending(versions \ {newest}))

\* the infos of the versions that GetVersionInfo finds, in the order given
RECURSIVE FetchInfos(_, _)
FetchInfos(d, versions) ==
    IF versions = <<>> THEN <<>>
    ELSE With(GetVersionInfo(d, Head(versions)), LAMBDA r :
         (IF r.err # "" THEN <<>> ELSE r.info) \o FetchInfos(d, Tail(versions)))

ListVersions(d, limit) ==
    With(SortDescending(StoredVersions(d)), LAMBDA versions :
    FetchInfos(d, IF limit > 0 /\ Len(versions) > limit
                  THEN SubSeq(versions, 1, limit) ELSE versions))

----------------------------------------------------------------------------
(* strings and path/filepath *)

HasPrefix(s, prefix) ==
    /\ Len(s) >= Len(prefix)
    /\ \A i \in 1..Len(prefix) : s[i] = prefix[i]

\* strings.Contains(s, "..")
ContainsDotDot(s) == \E i \in 1..(Len(s) - 1) : s[i] = "." /\ s[i + 1] = "."

\* strings.Trim(s, "/")
RECURSIVE TrimLeftSlash(_)
TrimLeftSlash(s) == IF s # <<>> /\ Head(s) = "/" THEN TrimLeftSlash(Tail(s)) ELSE s
RECURSIVE TrimRightSlash(_)
TrimRightSlash(s) ==
    IF s # <<>> /\ s[Len(s)] = "/" THEN TrimRightSlash(SubSeq(s, 1, Len(s) - 1)) ELSE s
TrimSlash(s) == TrimRightSlash(TrimLeftSlash(s))

\* strings.Split(s, sep) for a one-character sep: always at least one part
RECURSIVE SplitFrom(_, _, _)
SplitFrom(s, sep, part) ==
    IF s = <<>> THEN <<part>>
    ELSE IF Head(s) = sep THEN <<part>> \o SplitFrom(Tail(s), sep, <<>>)
    ELSE SplitFrom(Tail(s), sep, Append(part, Head(s)))
Split(s, sep) == SplitFrom(s, sep, <<>>)

\* strings.Join(parts, sep)
RECURSIVE Join(_, _)
Join(parts, sep) ==
    IF parts = <<>> THEN <<>>
    ELSE IF Len(parts) = 1 THEN parts[1]
    ELSE parts[1] \o sep \o Join(Tail(parts), sep)

\* filepath.Clean: the elements kept after dropping "" and ".", and resolving ".."
RECURSIVE CleanParts(_, _, _)
CleanParts(parts, out, rooted) ==
    IF parts = <<>> THEN out
    ELSE LET e == Head(parts) IN
         IF e = <<>> \/ e = <<".">> THEN CleanParts(Tail(parts), out, rooted)
         ELSE IF e = <<".", ".">>
              THEN IF out # <<>> /\ out[Len(out)] # <<".", ".">>
                   THEN CleanParts(Tail(parts), SubSeq(out, 1, Len(out) - 1), rooted)
                   ELSE IF rooted THEN CleanParts(Tail(parts), out, rooted)
                   ELSE CleanParts(Tail(parts), Append(out, e), rooted)
              ELSE CleanParts(Tail(parts), Append(out, e), rooted)

Clean(path) ==
    IF path = <<>> THEN <<".">>
    ELSE With(Join(CleanParts(Split(path, "/"), <<>>, Head(path) = "/"), <<"/">>),
              LAMBDA out : IF Head(path) = "/" THEN <<"/">> \o out
                           ELSE IF out = <<>> THEN <<".">> ELSE out)

\* the parts of a cleaned path, with "" and "." parts filtered out
FilteredParts(cleanPath) ==
    LET parts == Split(TrimSlash(cleanPath), "/") IN
    SelectSeq(parts, LAMBDA part : part # <<>> /\ part # <<".">>)

----------------------------------------------------------------------------
(* merge: the unified-diff parser.  patchData is given as its lines; no      *)
(* lines at all is the empty byte slice.                                     *)

\* bufio.MaxScanTokenSize, the size the buffer of a bufio.Scanner grows to
MaxScanTokenSize == 65536

\* The lines scanner.Scan() yields.  A line that does not fit the buffer ends
\* the scan with ErrTooLong; neither loop looks at scanner.Err(), so the lines
\* from there on are never seen.
RECURSIVE ScannedLines(_)
ScannedLines(lines) ==
    IF lines = <<>> \/ Len(Head(lines)) >= MaxScanTokenSize THEN <<>>
    ELSE <<Head(lines)>> \o ScannedLines(Tail(lines))

DigitChars == <<"0", "1", "2", "3", "4", "5", "6", "7", "8", "9">>
IsDigit(c) == \E i \in 1..Len(DigitChars) : DigitChars[i] = c
DigitValue(c) == (CHOOSE i \in 1..Len(DigitChars) : DigitChars[i] = c) - 1

\* strconv.Atoi of a run of digits
RECURSIVE AtoiFrom(_, _)
AtoiFrom(digits, acc) ==
    IF digits = <<>> THEN acc
    ELSE AtoiFrom(Tail(digits), acc * 10 + DigitValue(Head(digits)))
Atoi(digits) == AtoiFrom(digits, 0)

\* the end of the longest run of digits of s that starts at i (i - 1 if none)
RECURSIVE DigitsEnd(_, _)
DigitsEnd(s, i) == IF i <= Len(s) /\ IsDigit(s[i]) THEN DigitsEnd(s, i + 1) ELSE i - 1

\* s has the literal lit at position i
HasAt(s, i, lit) ==
    /\ Len(s) >= i + Len(lit) - 1
    /\ \A j \in 1..Len(lit) : s[i + j - 1] = lit[j]

\* (\d+)(?:,(\d+))? matched at i: the two groups and the position after them
MatchRange(s, i) ==
    With(DigitsEnd(s, i), LAMBDA e1 :
    IF e1 < i THEN [ok |-> FALSE, start |-> <<>>, count |-> <<>>, next |-> i]
    ELSE With(DigitsEnd(s, e1 + 2), LAMBDA e2 :
         IF HasAt(s, e1 + 1, <<",">>) /\ e2 >= e1 + 2
         THEN [ok |-> TRUE, start |-> SubSeq(s, i, e1),
               count |-> SubSeq(s, e1 + 2, e2), next |-> e2 + 1]
         ELSE [ok |-> TRUE, start |-> SubSeq(s, i, e1), count |-> <<>>, next |-> e1 + 1]))

\* hunkRegex: ^@@ -(\d+)(?:,(\d+))? \+(\d+)(?:,(\d+))? @@
NoMatch == [ok |-> FALSE, m1 |-> <<>>, m2 |-> <<>>, m3 |-> <<>>, m4 |-> <<>>]
MatchHunkHeader(line) ==
    IF ~HasAt(line, 1, <<"@", "@", " ", "-">>) THEN NoMatch
    ELSE With(MatchRange(line, 5), LAMBDA old :
         IF ~old.ok \/ ~HasAt(line, old.next, <<" ", "+">>) THEN NoMatch
         ELSE With(MatchRange(line, old.next + 2), LAMBDA new :
              IF ~new.ok \/ ~HasAt(line, new.next, <<" ", "@", "@">>) THEN NoMatch
              ELSE [ok |-> TRUE, m1 |-> old.start, m2 |-> old.count,
                    m3 |-> new.start, m4 |-> new.count]))

OldHeaderPrefix == <<"-", "-", "-", " ">>
NewHeaderPrefix == <<"+", "+", "+", " ">>

RECURSIVE ValidateLines(_, _)
ValidateLines(lines, hasValidHeader) ==
    IF lines = <<>>
    THEN IF hasValidHeader THEN ""
         ELSE "patch does not contain valid unified diff headers"
    ELSE LET line == Head(lines)
             hdr == hasValidHeader \/ HasPrefix(line, OldHeaderPrefix)
                                   \/ HasPrefix(line, NewHeaderPrefix)
         IN IF HasPrefix(line, <<"@", "@">>) /\ ~hdr
            THEN "patch has hunk without proper file headers"
            ELSE ValidateLines(Tail(lines), hdr)

ValidatePatch(patchData) ==
    IF patchData = <<>> THEN "patch data is empty"
    ELSE ValidateLines(ScannedLines(patchData), FALSE)

\* strings.TrimPrefix(line, "--- ") and the "a/" or "b/" that may follow
HeaderFile(line, side) ==
    LET f == SubSeq(line, 5, Len(line)) IN
    IF HasPrefix(f, <<side, "/">>) THEN SubSeq(f, 3, Len(f)) ELSE f

NewHunk(m) ==
    [OldStart |-> Atoi(m.m1),
     OldCount |-> IF m.m2 # <<>> THEN Atoi(m.m2) ELSE 1,
     NewStart |-> Atoi(m.m3),
     NewCount |-> IF m.m4 # <<>> THEN Atoi(m.m4) ELSE 1,
     Lines |-> <<>>]

\* one turn of ParsePatch's scanner loop; st.cur is currentHunk (nil when empty)
ParseLine(st, line) ==
    IF HasPrefix(line, OldHeaderPrefix)
    THEN [st EXCEPT !.Header.OldFile = HeaderFile(line, "a")]
    ELSE IF HasPrefix(line, NewHeaderPrefix)
    THEN [st EXCEPT !.Header.NewFile = HeaderFile(line, "b")]
    ELSE With(MatchHunkHeader(line), LAMBDA matches :
    IF matches.ok
    THEN [st EXCEPT !.Hunks = st.Hunks \o st.cur, !.cur = <<NewHunk(matches)>>]
    ELSE IF st.cur # <<>> /\ line # <<>> /\ Head(line) \in {"+", "-", " "}
    THEN [st EXCEPT !.cur[1].Lines =
              Append(@, [Type |-> Head(line), Content |-> Tail(line)])]
    ELSE st)

RECURSIVE ParseLines(_, _)
ParseLines(st, lines) ==
    IF lines = <<>> THEN st ELSE ParseLines(ParseLine(st, Head(lines)), Tail(lines))

ParsePatch(patchData) ==
    With(ValidatePatch(patchData), LAMBDA err :
    IF err # ""
    THEN [err |-> err,
          patch |-> [Header |-> [OldFile |-> <<>>, NewFile |-> <<>>], Hunks |-> <<>>]]
    ELSE With(ParseLines([Header |-> [OldFile |-> <<>>, NewFile |-> <<>>],
                          Hunks |-> <<>>, cur |-> <<>>], ScannedLines(patchData)),
              LAMBDA st : [err |-> "",
                           patch |-> [Header |-> st.Header, Hunks |-> st.Hunks \o st.cur]]))

----------------------------------------------------------------------------
(* Repository: applying a parsed patch to file content *)

\* every piece between newlines, the empty one after a final "\n" too
OriginalLinesAll(originalContent) ==
    IF originalContent = <<>> THEN <<>> ELSE Split(originalContent, "\n")

\* the lines of the original content, without the empty piece after a final "\n"
OriginalLines(originalContent) ==
    IF originalContent = <<>> THEN <<>>
    ELSE With(Split(originalContent, "\n"), LAMBDA parts :
         IF parts[Len(parts)] = <<>> THEN SubSeq(parts, 1, Len(parts) - 1) ELSE parts)

\* copy original lines while originalIndex < limit and lines remain;
\* st.i is originalIndex (0-based), st.result the lines emitted so far
RECURSIVE CopyUpTo(_, _, _)
CopyUpTo(st, orig, limit) ==
    IF st.i < limit /\ st.i < Len(orig)
    THEN CopyUpTo([result |-> Append(st.result, orig[st.i + 1]), i |-> st.i + 1], orig, limit)
    ELSE st

\* a deletion that moves on without looking for the end of the original
ApplyPatchLineUnguarded(st, orig, patchLine) ==
    IF patchLine.Type = " "
    THEN IF st.i < Len(orig)
         THEN [result |-> Append(st.result, orig[st.i + 1]), i |-> st.i + 1]
         ELSE st
    ELSE IF patchLine.Type = "-"
    THEN [st EXCEPT !.i = st.i + 1]
    ELSE IF patchLine.Type = "+"
    THEN [st EXCEPT !.result = Append(st.result, patchLine.Content)]
    ELSE st

\* a context line emitted with the text the patch gives for it
ApplyPatchLineVerbatim(st, orig, patchLine) ==
    IF patchLine.Type = " "
    THEN IF st.i < Len(orig)
         THEN [result |-> Append(st.result, patchLine.Content), i |-> st.i + 1]
         ELSE st
    ELSE IF patchLine.Type = "-"
    THEN IF st.i < Len(orig) THEN [st EXCEPT !.i = st.i + 1] ELSE st
    ELSE IF patchLine.Type = "+"
    THEN [st EXCEPT !.result = Append(st.result, patchLine.Content)]
    ELSE st

ApplyPatchLine(st, orig, patchLine) ==
    IF patchLine.Type = " "
    THEN IF st.i < Len(orig)
         THEN [result |-> Append(st.result, orig[st.i + 1]), i |-> st.i + 1]
         ELSE st
    ELSE IF patchLine.Type = "-"
    THEN IF st.i < Len(orig) THEN [st EXCEPT !.i = st.i + 1] ELSE st
    ELSE IF patchLine.Type = "+"
    THEN [st EXCEPT !.result = Append(st.result, patchLine.Content)]
    ELSE st

RECURSIVE ApplyHunkLines(_, _, _)
ApplyHunkLines(st, orig, patchLines) ==
    IF patchLines = <<>> THEN st
    ELSE ApplyHunkLines(ApplyPatchLine(st, orig, Head(patchLines)), orig, Tail(patchLines))

RECURSIVE ApplyHunks(_, _, _)
ApplyHunks(st, orig, hunks) ==
    IF hunks = <<>> THEN st
    ELSE ApplyHunks(ApplyHunkLines(CopyUpTo(st, orig, Head(hunks).OldStart - 1),
                                   orig, Head(hunks).Lines),
                    orig, Tail(hunks))

applyPatchToContent(originalContent, patch) ==
    With(OriginalLines(originalContent), LAMBDA orig :
    With(CopyUpTo(ApplyHunks([result |-> <<>>, i |-> 0], orig, patch.Hunks),
                  orig, Len(orig)).result,
         LAMBDA result : IF result = <<>> THEN <<>>
                         ELSE Join(result, <<"\n">>) \o <<"\n">>))

----------------------------------------------------------------------------
(* Repository: reading by path *)

\* a search by name alone
RECURSIVE FindEntryOfAnyType(_, _, _)
FindEntryOfAnyType(entries, name, type) ==
    IF entries = <<>> THEN <<>>
    ELSE IF Head(entries).Name = name THEN <<Head(entries)>>
    ELSE FindEntryOfAnyType(Tail(entries), name, type)

\* the first entry of the tree with this name and type (first match wins)
RECURSIVE FindEntry(_, _, _)
FindEntry(entries, name, type) ==
    IF entries = <<>> THEN <<>>
    ELSE IF Head(entries).Name = name /\ Head(entries).Type = type THEN <<Head(entries)>>
    ELSE FindEntry(Tail(entries), name, type)

\* a walk that steps over a part with no tree entry of that name
RECURSIVE WalkDirsSkipping(_, _, _)
WalkDirsSkipping(d, treeHash, parts) ==
    IF parts = <<>> THEN [err |-> "", hash |-> treeHash]
    ELSE With(GetTree(d, treeHash), LAMBDA t :
         IF t.err # "" THEN [err |-> "failed to get tree", hash |-> NoHash]
         ELSE With(FindEntry(t.entries, Head(parts), ObjectTypeTree), LAMBDA e :
              IF e = <<>> THEN WalkDirsSkipping(d, treeHash, Tail(parts))
              ELSE WalkDirsSkipping(d, e[1].Hash, Tail(parts))))

\* the directory walk shared by findFileInTree and findDirectoryInTree
RECURSIVE WalkDirs(_, _, _)
WalkDirs(d, treeHash, parts) ==
    IF parts = <<>> THEN [err |-> "", hash |-> treeHash]
    ELSE With(GetTree(d, treeHash), LAMBDA t :
         IF t.err # "" THEN [err |-> "failed to get tree", hash |-> NoHash]
         ELSE With(FindEntry(t.entries, Head(parts), ObjectTypeTree), LAMBDA e :
              IF e = <<>> THEN [err |-> "directory not found", hash |-> NoHash]
              ELSE WalkDirs(d, e[1].Hash, Tail(parts))))

findFileInTree(d, treeHash, path) ==
    IF path = <<>> THEN [err |-> "empty path", hash |-> NoHash]
    ELSE With(Clean(path), LAMBDA cleanPath :
    IF cleanPath = <<".">> THEN [err |-> "cannot read directory as file", hash |-> NoHash]
    ELSE With(FilteredParts(cleanPath), LAMBDA parts :
         IF parts = <<>> THEN [err |-> "invalid path", hash |-> NoHash]
         ELSE With(WalkDirs(d, treeHash, SubSeq(parts, 1, Len(parts) - 1)), LAMBDA w :
              IF w.err # "" THEN w
              ELSE With(GetTree(d, w.hash), LAMBDA t :
                   IF t.err # "" THEN [err |-> "failed to get final tree", hash |-> NoHash]
                   ELSE With(FindEntry(t.entries, parts[Len(parts)], ObjectTypeBlob),
                             LAMBDA e :
                        IF e = <<>> THEN [err |-> "file not found", hash |-> NoHash]
                        ELSE [err |-> "", hash |-> e[1].Hash])))))

findDirectoryInTree(d, treeHash, path) ==
    IF path = <<>> THEN [err |-> "", hash |-> treeHash]
    ELSE With(Clean(path), LAMBDA cleanPath :
    IF cleanPath = <<".">> THEN [err |-> "", hash |-> treeHash]
    ELSE WalkDirs(d, treeHash, FilteredParts(cleanPath)))

readFileFromTree(d, rootTreeHash, path) ==
    With(findFileInTree(d, rootTreeHash, path), LAMBDA f :
    IF f.err # "" THEN [err |-> f.err, content |-> <<>>]
    ELSE GetBlob(d, f.hash))

ReadFile(d, version, path) ==
    With(GetVersionInfo(d, version), LAMBDA vi :
    IF vi.err # "" THEN [err |-> "version not found", content |-> <<>>]
    ELSE With(GetCommit(d, vi.info[1].CommitHash), LAMBDA c :
         IF c.err # "" THEN [err |-> "commit not found", content |-> <<>>]
         ELSE With(findFileInTree(d, c.commit[1].RootTree, path), LAMBDA f :
              IF f.err # "" THEN [err |-> f.err, content |-> <<>>]
              ELSE With(GetBlob(d, f.hash), LAMBDA b :
                   IF b.err # "" THEN [err |-> "failed to read blob", content |-> <<>>]
                   ELSE b))))

ReadDirectory(d, version, path) ==
    With(GetVersionInfo(d, version), LAMBDA vi :
    IF vi.err # "" THEN [err |-> "version not found", entries |-> <<>>]
    ELSE With(GetCommit(d, vi.info[1].CommitHash), LAMBDA c :
         IF c.err # "" THEN [err |-> "commit not found", entries |-> <<>>]
         ELSE With(findDirectoryInTree(d, c.commit[1].RootTree, path), LAMBDA f :
              IF f.err # "" THEN [err |-> f.err, entries |-> <<>>]
              ELSE With(GetTree(d, f.hash), LAMBDA t :
                   IF t.err # "" THEN [err |-> "failed to read tree", entries |-> <<>>]
                   ELSE t))))

----------------------------------------------------------------------------
(* Repository: rewriting the trees along a path.  Each operator reads the    *)
(* backend d and returns the hash of the tree it built together with the     *)
(* Puts it issued, in the order it issued them.                              *)

DefaultFileMode == 420   \* 0644
DefaultDirMode == 493    \* 0755

BlobEntry(name, blobHash, mode, size, now) ==
    [Name |-> name, Hash |-> blobHash, Type |-> ObjectTypeBlob,
     Mode |-> mode, Size |-> size, ModTime |-> now]

TreeEntry(name, treeHash, mode, size, modTime) ==
    [Name |-> name, Hash |-> treeHash, Type |-> ObjectTypeTree,
     Mode |-> mode, Size |-> size, ModTime |-> modTime]

Stored(put) == [err |-> "", hash |-> put.key.h, puts |-> <<put>>]

\* a tree whose hash is returned while its own Put is left out
StoredAfterUnstored(puts, put) == [err |-> "", hash |-> put.key.h, puts |-> puts]

\* a tree stored after the Puts that built what it refers to
StoredAfter(puts, put) == [err |-> "", hash |-> put.key.h, puts |-> Append(puts, put)]

\* the entry list with every blob entry replaced, whatever its name
RECURSIVE ReplaceAnyBlobEntries(_, _, _, _, _)
ReplaceAnyBlobEntries(entries, fileName, blobHash, size, now) ==
    IF entries = <<>> THEN <<>>
    ELSE With(Head(entries), LAMBDA entry :
         (IF entry.Type = ObjectTypeBlob
          THEN <<BlobEntry(fileName, blobHash, entry.Mode, size, now)>>
          ELSE <<entry>>)
         \o ReplaceAnyBlobEntries(Tail(entries), fileName, blobHash, size, now))

\* the new entry list of updateTreeEntryWithBlob: every blob entry called
\* fileName replaced, the others kept
RECURSIVE ReplaceBlobEntries(_, _, _, _, _)
ReplaceBlobEntries(entries, fileName, blobHash, size, now) ==
    IF entries = <<>> THEN <<>>
    ELSE With(Head(entries), LAMBDA entry :
         (IF entry.Name = fileName /\ entry.Type = ObjectTypeBlob
          THEN <<BlobEntry(fileName, blobHash, entry.Mode, size, now)>>
          ELSE <<entry>>)
         \o ReplaceBlobEntries(Tail(entries), fileName, blobHash, size, now))

updateTreeEntryWithBlob(d, treeHash, fileName, blobHash, size, now) ==
    With(GetTree(d, treeHash), LAMBDA t :
    IF t.err # "" THEN [err |-> "failed to get tree", hash |-> NoHash, puts |-> <<>>]
    ELSE With(ReplaceBlobEntries(t.entries, fileName, blobHash, size, now),
              LAMBDA replaced :
         Stored(StoreTree(
             \* fileUpdated: some blob entry had this name
             IF FindEntry(t.entries, fileName, ObjectTypeBlob) # <<>> THEN replaced
             ELSE Append(replaced, BlobEntry(fileName, blobHash,
                                             DefaultFileMode, size, now))))))

RECURSIVE createNestedTreeWithBlob(_, _, _, _)
createNestedTreeWithBlob(pathParts, blobHash, size, now) ==
    IF pathParts = <<>> THEN [err |-> "empty path parts", hash |-> NoHash, puts |-> <<>>]
    ELSE IF Len(pathParts) = 1
    THEN Stored(StoreTree(<<BlobEntry(pathParts[1], blobHash, DefaultFileMode, size, now)>>))
    ELSE With(createNestedTreeWithBlob(Tail(pathParts), blobHash, size, now), LAMBDA sub :
         IF sub.err # "" THEN sub
         ELSE StoredAfter(sub.puts,
                  StoreTree(<<TreeEntry(pathParts[1], sub.hash, DefaultDirMode, 0, now)>>)))

RECURSIVE updateNestedTreeWithBlob(_, _, _, _, _, _)
RECURSIVE UpdateDirEntries(_, _, _, _, _, _, _)

\* the loop of updateNestedTreeWithBlob over the entries of one tree; acc
\* carries newEntries, dirUpdated, the Puts so far and the first error
UpdateDirEntries(d, entries, pathParts, blobHash, size, now, acc) ==
    IF entries = <<>> \/ acc.err # "" THEN acc
    ELSE With(Head(entries), LAMBDA entry :
         IF entry.Name = pathParts[1] /\ entry.Type = ObjectTypeTree
         THEN With(IF Len(pathParts) = 2
                   THEN updateTreeEntryWithBlob(d, entry.Hash, pathParts[2],
                                                blobHash, size, now)
                   ELSE updateNestedTreeWithBlob(d, entry.Hash, Tail(pathParts),
                                                 blobHash, size, now),
                   LAMBDA sub :
              UpdateDirEntries(d, Tail(entries), pathParts, blobHash, size, now,
                     [err |-> IF sub.err # "" THEN "failed to update subtree" ELSE "",
                      newEntries |-> Append(acc.newEntries,
                          TreeEntry(pathParts[1], sub.hash, entry.Mode, entry.Size,
                                    entry.ModTime)),
                      dirUpdated |-> TRUE,
                      puts |-> acc.puts \o sub.puts]))
         ELSE UpdateDirEntries(d, Tail(entries), pathParts, blobHash, size, now,
                  [acc EXCEPT !.newEntries = Append(@, entry)]))

updateNestedTreeWithBlob(d, rootTreeHash, pathParts, blobHash, size, now) ==
    IF pathParts = <<>> THEN [err |-> "empty path parts", hash |-> NoHash, puts |-> <<>>]
    ELSE With(GetTree(d, rootTreeHash), LAMBDA t :
    IF t.err # "" THEN [err |-> "failed to get tree", hash |-> NoHash, puts |-> <<>>]
    ELSE With(UpdateDirEntries(d, t.entries, pathParts, blobHash, size, now,
                  [err |-> "", newEntries |-> <<>>, dirUpdated |-> FALSE, puts |-> <<>>]),
              LAMBDA acc :
         IF acc.err # "" THEN [err |-> acc.err, hash |-> NoHash, puts |-> acc.puts]
         ELSE IF acc.dirUpdated
         THEN StoredAfter(acc.puts, StoreTree(acc.newEntries))
         ELSE With(IF Len(pathParts) = 2
                   THEN Stored(StoreTree(<<BlobEntry(pathParts[2], blobHash,
                                                     DefaultFileMode, size, now)>>))
                   ELSE createNestedTreeWithBlob(Tail(pathParts), blobHash, size, now),
                   LAMBDA sub :
              IF sub.err # ""
              THEN [err |-> "failed to create new subtree", hash |-> NoHash,
                    puts |-> acc.puts \o sub.puts]
              ELSE StoredAfter(acc.puts \o sub.puts,
                       StoreTree(Append(acc.newEntries,
                           TreeEntry(pathParts[1], sub.hash, DefaultDirMode, 0, now)))))))

updateTreeWithBlob(d, rootTreeHash, path, blobHash, size, now) ==
    IF path = <<>> THEN [err |-> "empty path", hash |-> NoHash, puts |-> <<>>]
    ELSE With(Split(TrimSlash(path), "/"), LAMBDA parts :
         IF Len(parts) = 1
         THEN updateTreeEntryWithBlob(d, rootTreeHash, parts[1], blobHash, size, now)
         ELSE updateNestedTreeWithBlob(d, rootTreeHash, parts, blobHash, size, now))

\* the target path of a parsed patch: newFile, else oldFile
TargetPath(patch) ==
    IF patch.Header.NewFile # <<>> THEN patch.Header.NewFile ELSE patch.Header.OldFile

\* a validation that lets every path through
ValidateTargetPathNone(targetPath) == ""

\* the target-path validation of applyPatchToTree
ValidateTargetPath(targetPath) ==
    IF targetPath = <<>> THEN "patch does not specify a target file"
    ELSE IF ContainsDotDot(targetPath) THEN "path traversal not allowed in patch target"
    ELSE With(Clean(targetPath), LAMBDA cleanPath :
         IF HasPrefix(cleanPath, <<".", ".">>) \/ HasPrefix(cleanPath, <<"/">>)
         THEN "invalid patch target path"
         ELSE "")

applyPatchToTree(d, rootTreeHash, patch, now) ==
    With(TargetPath(patch), LAMBDA targetPath :
    With(ValidateTargetPath(targetPath), LAMBDA invalid :
    IF invalid # "" THEN [err |-> invalid, hash |-> NoHash, puts |-> <<>>]
    ELSE With(readFileFromTree(d, rootTreeHash, targetPath), LAMBDA rd :
         \* a file that cannot be read is a new file: empty original content
         With(applyPatchToContent(IF rd.err # "" THEN <<>> ELSE rd.content, patch),
              LAMBDA patchedContent :
         With(StoreBlob(patchedContent), LAMBDA blobPut :
         With(updateTreeWithBlob(d, rootTreeHash, targetPath, blobPut.key.h,
                                 Len(patchedContent), now),
              LAMBDA up :
         IF up.err # ""
         THEN [err |-> "failed to update tree structure", hash |-> NoHash,
               puts |-> <<blobPut>> \o up.puts]
         ELSE [err |-> "", hash |-> up.hash, puts |-> <<blobPut>> \o up.puts]))))))

----------------------------------------------------------------------------
(* Repository: snapshots and patches.  A directory of the filesystem is the  *)
(* list os.ReadDir returns (sorted by name); a node is a file with its bytes *)
(* or a directory with its children.                                         *)

File(name, bytes) ==
    [name |-> name, isDir |-> FALSE, mode |-> DefaultFileMode, modTime |-> 0,
     bytes |-> bytes, children |-> <<>>]
Dir(name, children) ==
    [name |-> name, isDir |-> TRUE, mode |-> DefaultDirMode, modTime |-> 0,
     bytes |-> <<>>, children |-> children]

RECURSIVE createTreeFromFileSystem(_)
RECURSIVE TreeEntriesFrom(_, _)

\* the loop of createTreeFromFileSystem over the directory's entries
TreeEntriesFrom(nodes, acc) ==
    IF nodes = <<>> THEN acc
    ELSE With(Head(nodes), LAMBDA node :
         IF node.isDir
         THEN With(createTreeFromFileSystem(node.children), LAMBDA sub :
              TreeEntriesFrom(Tail(nodes),
                  [treeEntries |-> Append(acc.treeEntries,
                       \* entry.Type() & fs.ModePerm: a DirEntry's type bits hold no permissions
                       TreeEntry(node.name, sub.hash, 0, 0, node.modTime)),
                   puts |-> acc.puts \o sub.puts]))
         ELSE With(StoreBlob(node.bytes), LAMBDA put :
              TreeEntriesFrom(Tail(nodes),
                  [treeEntries |-> Append(acc.treeEntries,
                       BlobEntry(node.name, put.key.h, node.mode, Len(node.bytes),
                                 node.modTime)),
                   puts |-> Append(acc.puts, put)])))

\* a tree builder that stamps the root's entries with the time of the call,
\* not with the modification time of the file or directory
createTreeFromFileSystemNow(nodes) ==
    With(TreeEntriesFrom(nodes, [treeEntries |-> <<>>, puts |-> <<>>]), LAMBDA acc :
    StoredAfter(acc.puts, StoreTree([i \in 1..Len(acc.treeEntries) |->
                                        [acc.treeEntries[i] EXCEPT !.ModTime = clock]])))

createTreeFromFileSystem(nodes) ==
    With(TreeEntriesFrom(nodes, [treeEntries |-> <<>>, puts |-> <<>>]), LAMBDA acc :
    StoredAfter(acc.puts, StoreTree(acc.treeEntries)))

\* a commit that records no parent
NewCommitNoParent(rootTree, parent, author, message, now, version) ==
    [RootTree |-> rootTree, Parent |-> <<>>, Author |-> author, Message |-> message,
     Timestamp |-> now, Version |-> version]

NewCommit(rootTree, parent, author, message, now, version) ==
    [RootTree |-> rootTree, Parent |-> parent, Author |-> author, Message |-> message,
     Timestamp |-> now, Version |-> version]

NoResult(err, d) == [err |-> err, info |-> <<>>, d |-> d]

\* the end of both commit-creating calls: StoreCommit, then CreateVersion
CommitAndVersion(d, puts, commitPut, message, now) ==
    CreateVersion(PutAll(d, Append(puts, commitPut)), commitPut.key.h, message, now)

\* ApplyPatch's test for a repository without commits
IsEmptyRepositoryNever(currentVersion) == FALSE
IsEmptyRepository(currentVersion) == currentVersion = 0

\* CreateCommitFromFileSystem run to completion on backend d; root is the
\* directory at rootPath, or <<>> when rootPath cannot be read
CreateCommitFromFileSystem(d, root, author, message, now) ==
    With(GetCurrentVersion(d), LAMBDA currentVersion :
    With(GetVersionInfo(d, currentVersion), LAMBDA parentInfo :
    IF root = <<>> THEN NoResult("failed to create tree from filesystem", d)
    ELSE With(createTreeFromFileSystem(root[1]), LAMBDA tree :
         CommitAndVersion(d, tree.puts,
             StoreCommit(NewCommit(tree.hash,
                                   IF currentVersion > 0 /\ parentInfo.err = ""
                                   THEN <<parentInfo.info[1].CommitHash>> ELSE <<>>,
                                   author, message, now, currentVersion + 1)),
             message, now))))

\* ApplyPatch run to completion on backend d
ApplyPatch(d, patchData, author, message, now) ==
    With(ParsePatch(patchData), LAMBDA parsed :
    IF parsed.err # "" THEN NoResult("failed to parse patch", d)
    ELSE
    With(GetCurrentVersion(d), LAMBDA currentVersion :
    IF IsEmptyRepository(currentVersion)
    THEN NoResult("cannot apply patch to empty repository", d)
    ELSE
    With(GetVersionInfo(d, currentVersion), LAMBDA currentInfo :
    IF currentInfo.err # "" THEN NoResult("failed to get current version info", d)
    ELSE
    With(GetCommit(d, currentInfo.info[1].CommitHash), LAMBDA currentCommit :
    IF currentCommit.err # "" THEN NoResult("failed to get current commit", d)
    ELSE
    With(applyPatchToTree(d, currentCommit.commit[1].RootTree, parsed.patch, now),
         LAMBDA tree :
    IF tree.err # "" THEN NoResult(tree.err, PutAll(d, tree.puts))
    ELSE CommitAndVersion(d, tree.puts,
             StoreCommit(NewCommit(tree.hash, <<currentInfo.info[1].CommitHash>>,
                                   author, message, now, currentVersion + 1)),
             message, now))))))

----------------------------------------------------------------------------
(* Inputs *)

Messages == {<<"m", "1">>}
Author == <<"d", "e", "v">>

\* Commit hashes handed to CreateVersion directly (storage tests, TestVersionManager)
CommitHashes == {OpaqueHash("commit1hash"), OpaqueHash("commit2hash")}

\* Directory trees handed to CreateCommitFromFileSystem
FS1 == << Dir(<<"d">>, << Dir(<<"e">>, << File(<<"h">>, <<"z", "\n">>) >>),
                           File(<<"g">>, <<"x", "\n", "w", "\n">>) >>),
          File(<<"f">>, <<"x", "\n">>),
          Dir(<<"s">>, << File(<<"k">>, <<"x", "\n">>) >>) >>
FS2 == << File(<<"f">>, <<"x", "\n", "w">>) >>
FileSystems == {<<FS1>>, <<FS2>>, <<>>}

\* Patch texts handed to ApplyPatch
OldHeader(path) == OldHeaderPrefix \o <<"a", "/">> \o path
NewHeader(path) == NewHeaderPrefix \o <<"b", "/">> \o path
\* "@@ -1,1 +1,1 @@", "-x", "+y": the first line replaced
ReplaceFirst == << <<"@", "@", " ", "-", "1", ",", "1", " ", "+", "1", ",", "1", " ", "@", "@">>,
                   <<"-", "x">>, <<"+", "y">> >>
\* "@@ -0,0 +1 @@", "+n": a line added at the top
AddLine == << <<"@", "@", " ", "-", "0", ",", "0", " ", "+", "1", " ", "@", "@">>,
              <<"+", "n">> >>
PatchOf(path, hunkLines) == <<OldHeader(path), NewHeader(path)>> \o hunkLines

\* target paths the validation accepts
GoodPaths ==
    { <<"f">>, <<"d", "/", "g">>, <<"d", "/", "e", "/", "h">>,       \* existing files
      <<"n">>, <<"d", "/", "n">>, <<"s">>,                            \* new files
      <<"x", "/", "n">>, <<"x", "/", "y", "/", "n">>,                 \* new directories
      <<".", "/", "f">>, <<"d", "/", "/", "g">> }                     \* "." and "//"
\* target paths it rejects
BadPaths == { <<".", ".", "/", "f">>, <<"f", ".", ".">>, <<"/", "f">> }

Patches ==
    {PatchOf(p, ReplaceFirst) : p \in {<<"f">>, <<"d", "/", "g">>, <<".", "/", "f">>,
                                       <<"d", "/", "/", "g">>} \cup BadPaths}
    \cup {PatchOf(p, AddLine) : p \in GoodPaths \ {<<"f">>, <<"d", "/", "g">>,
                                       <<".", "/", "f">>, <<"d", "/", "/", "g">>}}
    \cup { PatchOf(<<"f">>, <<>>),                       \* headers and no hunk
           <<OldHeader(<<"f">>)>> \o AddLine,            \* no "+++" line
           <<>>,                                         \* empty
           << <<"x">> >> }                               \* no header

\* Paths given to ReadFile and ReadDirectory
ReadPaths == GoodPaths \cup {<<".", "/", "d", "/", "g">>, <<"d", "/", ".", "/", "n">>}
DirPaths == { <<>>, <<".">>, <<"d">>, <<"d", "/", "e">>, <<"s">>, <<"x">>, <<"x", "/", "y">> }

----------------------------------------------------------------------------
(* State *)

EmptyBackend == [k \in {} |-> 0]

NoCall == [op |-> "none", err |-> "", in |-> <<>>, out |-> <<>>, pre |-> EmptyBackend]

\* The concurrent callers: two writers and a reader
Writers == {1, 2}

IdleWriter ==
    [pc |-> "idle", op |-> "", patch |-> <<>>, fsroot |-> <<>>, message |-> <<>>,
     cur |-> 0, parent |-> <<>>, root |-> NoHash, pending |-> <<>>, commit |-> NoHash,
     cvCur |-> 0, info |-> <<>>, infoAt |-> 0, err |-> ""]

IdleReader ==
    [pc |-> "idle", op |-> "", path |-> <<>>, n |-> 0, commit |-> NoHash, hash |-> NoHash,
     parts |-> <<>>, err |-> "", out |-> <<>>, moved |-> FALSE]

\* limit: how many calls the writers may start
NoCalls ==
    [w |-> [p \in Writers |-> IdleWriter], r |-> IdleReader,
     started |-> 0, limit |-> 0, infoWrites |-> 0, hist |-> <<>>]

Init ==
    /\ data = EmptyBackend
    /\ clock = 0
    /\ last = NoCall
    /\ procs = NoCalls

\* Time passes between calls
Tick ==
    /\ clock < MaxClock
    /\ clock' = clock + 1
    /\ UNCHANGED <<data, last, procs>>

----------------------------------------------------------------------------
(* The version manager called directly, one call at a time *)

\* the record of what CreateVersion reported: hist[n] holds the commit hashes
\* version n was reported with
Reported(hist, info) ==
    IF info.Version > Len(hist) THEN Append(hist, {info.CommitHash})
    ELSE [hist EXCEPT ![info.Version] = @ \cup {info.CommitHash}]

VMCreateVersion ==
    \E h \in CommitHashes, m \in Messages : \E r \in {CreateVersion(data, h, m, clock)} :
        /\ GetCurrentVersion(data) < MaxVersion
        /\ data' = r.d
        /\ last' = [op |-> "CreateVersion", err |-> r.err, in |-> <<h, m>>,
                    out |-> r.info, pre |-> data]
        /\ procs' = [procs EXCEPT !.hist = Reported(@, r.info[1])]
        /\ UNCHANGED clock

VMDeleteVersion ==
    \E v \in 0..MaxVersion : \E r \in {DeleteVersion(data, v)} :
        /\ data' = r.d
        /\ last' = [op |-> "DeleteVersion", err |-> r.err, in |-> <<v>>,
                    out |-> <<>>, pre |-> data]
        /\ UNCHANGED <<clock, procs>>

VMListVersions ==
    \E limit \in -1..(MaxVersion + 1) :
        /\ last' = [op |-> "ListVersions", err |-> "", in |-> <<limit>>,
                    out |-> ListVersions(data, limit), pre |-> data]
        /\ UNCHANGED <<data, clock, procs>>

----------------------------------------------------------------------------
(* The repository, one call at a time *)

DoCreateCommitFromFileSystem ==
    \E root \in FileSystems, m \in Messages :
    \E r \in {CreateCommitFromFileSystem(data, root, Author, m, clock)} :
        /\ GetCurrentVersion(data) < MaxVersion
        /\ data' = r.d
        /\ last' = [op |-> "CreateCommitFromFileSystem", err |-> r.err,
                    in |-> <<root, m>>, out |-> r.info, pre |-> data]
        /\ UNCHANGED <<clock, procs>>

DoApplyPatch ==
    \E patchData \in Patches, m \in Messages :
    \E r \in {ApplyPatch(data, patchData, Author, m, clock)} :
        /\ GetCurrentVersion(data) < MaxVersion
        /\ data' = r.d
        /\ last' = [op |-> "ApplyPatch", err |-> r.err,
                    in |-> <<patchData, m>>, out |-> r.info, pre |-> data]
        /\ UNCHANGED <<clock, procs>>

Next == DoCreateCommitFromFileSystem \/ DoApplyPatch \/ Tick

Spec == Init /\ [][Next]_vars

NextVM == VMCreateVersion \/ VMDeleteVersion \/ VMListVersions \/ Tick

SpecVM == Init /\ [][NextVM]_vars

----------------------------------------------------------------------------
(* The repository under concurrent callers.  Every backend call is one step; *)
(* between two steps of one caller the other callers may take any number of  *)
(* theirs.  The reads applyPatchToTree makes are of objects reachable from   *)
(* the commit it was given and are taken in one step.  time.Now() returns    *)
(* the same instant throughout.                                              *)

\* Patches and directory trees the concurrent callers submit
ConcPatches == {PatchOf(<<"f">>, ReplaceFirst), PatchOf(<<"d", "/", "n">>, AddLine)}
ConcFileSystems == {<<FS2>>}

\* The directory tree of the first version: d/g and f
FS3 == << Dir(<<"d">>, << File(<<"g">>, <<"x", "\n">>) >>), File(<<"f">>, <<"x", "\n">>) >>

\* A repository holding one version, as CreateCommitFromFileSystem leaves an
\* empty backend when it runs alone
InitConc ==
    /\ data = CreateCommitFromFileSystem(EmptyBackend, <<FS3>>, Author, <<"m", "1">>, 0).d
    /\ clock = 0
    /\ last = NoCall
    /\ procs = [NoCalls EXCEPT !.limit = MaxCalls]

W(p) == procs.w[p]
SetW(p, rec) == [procs EXCEPT !.w[p] = rec]
Finish(p, err) == SetW(p, [W(p) EXCEPT !.pc = "done", !.err = err])

\* ApplyPatch, lines 140-155: parse, then GetCurrentVersion
StartApplyPatch(p) ==
    \E patchData \in ConcPatches, m \in Messages : \E cur \in {GetCurrentVersion(data)} :
        /\ W(p).pc \in {"idle", "done"}
        /\ procs.started < procs.limit
        /\ \E err \in {IF ParsePatch(patchData).err # "" THEN "failed to parse patch"
                        ELSE IF IsEmptyRepository(cur)
                        THEN "cannot apply patch to empty repository" ELSE ""} :
           procs' = [procs EXCEPT !.started = @ + 1,
                        !.w[p] = [IdleWriter EXCEPT
                                     !.op = "ApplyPatch", !.patch = patchData,
                                     !.message = m, !.cur = cur, !.err = err,
                                     !.pc = IF err = "" THEN "ap_info" ELSE "done"]]
        /\ UNCHANGED <<data, clock, last>>

\* ApplyPatch, lines 157-161: GetVersionInfo(currentVersion)
ApGetInfo(p) ==
    \E r \in {GetVersionInfo(data, W(p).cur)} :
    /\ W(p).pc = "ap_info"
    /\ procs' = IF r.err # "" THEN Finish(p, "failed to get current version info")
                ELSE SetW(p, [W(p) EXCEPT !.pc = "ap_commit",
                                          !.parent = <<r.info[1].CommitHash>>])
    /\ UNCHANGED <<data, clock, last>>

\* ApplyPatch, lines 163-166: GetCommit
ApGetCommit(p) ==
    /\ W(p).pc = "ap_commit"
    /\ \E r \in {GetCommit(data, W(p).parent[1])} :
        procs' = IF r.err # "" THEN Finish(p, "failed to get current commit")
                 ELSE SetW(p, [W(p) EXCEPT !.pc = "ap_tree", !.root = r.commit[1].RootTree])
    /\ UNCHANGED <<data, clock, last>>

\* applyPatchToTree: validation, the reads, and the list of Puts to issue
ApTree(p) ==
    /\ W(p).pc = "ap_tree"
    /\ \E r \in {applyPatchToTree(data, W(p).root, ParsePatch(W(p).patch).patch, clock)} :
        procs' = IF r.err # "" /\ r.puts = <<>> THEN Finish(p, r.err)
                 ELSE SetW(p, [W(p) EXCEPT !.pc = "put", !.root = r.hash,
                                           !.pending = r.puts, !.err = r.err])
    /\ UNCHANGED <<data, clock, last>>

\* CreateCommitFromFileSystem, lines 98-103: GetCurrentVersion
StartCreateCommit(p) ==
    \E root \in ConcFileSystems, m \in Messages : \E cur \in {GetCurrentVersion(data)} :
        /\ W(p).pc \in {"idle", "done"}
        /\ procs.started < procs.limit
        /\ procs' = [procs EXCEPT !.started = @ + 1,
                         !.w[p] = [IdleWriter EXCEPT
                                      !.op = "CreateCommitFromFileSystem", !.fsroot = root,
                                      !.message = m, !.cur = cur,
                                      !.pc = IF cur > 0 THEN "cc_info" ELSE "cc_tree"]]
        /\ UNCHANGED <<data, clock, last>>

\* CreateCommitFromFileSystem, lines 105-111: the parent, when there is one
CcGetInfo(p) ==
    \E r \in {GetVersionInfo(data, W(p).cur)} :
    /\ W(p).pc = "cc_info"
    /\ procs' = SetW(p, [W(p) EXCEPT !.pc = "cc_tree",
                             !.parent = IF r.err = "" THEN <<r.info[1].CommitHash>>
                                        ELSE <<>>])
    /\ UNCHANGED <<data, clock, last>>

\* createTreeFromFileSystem: the list of Puts to issue
CcTree(p) ==
    /\ W(p).pc = "cc_tree"
    /\ procs' = IF W(p).fsroot = <<>>
                THEN Finish(p, "failed to create tree from filesystem")
                ELSE With(createTreeFromFileSystem(W(p).fsroot[1]), LAMBDA r :
                     SetW(p, [W(p) EXCEPT !.pc = "put", !.root = r.hash,
                                          !.pending = r.puts]))
    /\ UNCHANGED <<data, clock, last>>

\* the next StoreBlob or StoreTree
PutObject(p) ==
    /\ W(p).pc = "put" /\ W(p).pending # <<>>
    /\ data' = Put(data, Head(W(p).pending).key, Head(W(p).pending).bytes)
    /\ procs' = SetW(p, [W(p) EXCEPT !.pending = Tail(@)])
    /\ UNCHANGED <<clock, last>>

\* StoreCommit of the new commit, once every tree is stored
PutCommit(p) ==
    /\ W(p).pc = "put" /\ W(p).pending = <<>>
    /\ IF W(p).err # ""
       THEN procs' = Finish(p, W(p).err) /\ data' = data
       ELSE \E put \in {StoreCommit(NewCommit(W(p).root, W(p).parent, Author,
                                              W(p).message, clock, W(p).cur + 1))} :
            /\ data' = Put(data, put.key, put.bytes)
            /\ procs' = SetW(p, [W(p) EXCEPT !.pc = "cv_read", !.commit = put.key.h])
    /\ UNCHANGED <<clock, last>>

\* CreateVersion, lines 73-87: GetCurrentVersion and the info to write
CvRead(p) ==
    \E cur \in {GetCurrentVersion(data)} :
    /\ W(p).pc = "cv_read"
    /\ procs' = SetW(p, [W(p) EXCEPT !.pc = "cv_info", !.cvCur = cur,
                             !.info = <<NewVersionInfo(cur + 1, W(p).commit, clock,
                                                       W(p).message)>>])
    /\ UNCHANGED <<data, clock, last>>

\* the Puts CreateVersion issues for the call of p
CvPuts(p) ==
    CreateVersionPuts(W(p).cvCur, W(p).commit, W(p).message, W(p).info[1].Timestamp)

\* CreateVersion, lines 95-98: Put version/info/<n>
CvPutInfo(p) ==
    /\ W(p).pc = "cv_info"
    /\ data' = Put(data, CvPuts(p)[1].key, CvPuts(p)[1].bytes)
    /\ procs' = [procs EXCEPT !.infoWrites = @ + 1,
                     !.w[p] = [W(p) EXCEPT !.pc = "cv_current",
                                           !.infoAt = procs.infoWrites + 1]]
    /\ UNCHANGED <<clock, last>>

\* CreateVersion, lines 100-104: Put version/current
CvPutCurrent(p) ==
    /\ W(p).pc = "cv_current"
    /\ data' = Put(data, CvPuts(p)[2].key, CvPuts(p)[2].bytes)
    /\ procs' = SetW(p, [W(p) EXCEPT !.pc = "cv_hash"])
    /\ UNCHANGED <<clock, last>>

\* CreateVersion, lines 106-113: Put version/hash/<commit>, and the return
CvPutHash(p) ==
    /\ W(p).pc = "cv_hash"
    /\ data' = Put(data, CvPuts(p)[3].key, CvPuts(p)[3].bytes)
    /\ procs' = [procs EXCEPT !.w[p] = [W(p) EXCEPT !.pc = "done"],
                     !.hist = Append(@, [caller |-> p, op |-> W(p).op,
                                         version |-> W(p).info[1].Version,
                                         commit |-> W(p).commit])]
    /\ UNCHANGED <<clock, last>>

WriterStep ==
    \E p \in Writers :
        \/ StartApplyPatch(p) \/ ApGetInfo(p) \/ ApGetCommit(p) \/ ApTree(p)
        \/ StartCreateCommit(p) \/ CcGetInfo(p) \/ CcTree(p)
        \/ PutObject(p) \/ PutCommit(p)
        \/ CvRead(p) \/ CvPutInfo(p) \/ CvPutCurrent(p) \/ CvPutHash(p)

NextConc == WriterStep

SpecConc == InitConc /\ [][NextConc]_vars

----------------------------------------------------------------------------
(* A reader beside the writers: GetCurrentVersion, then ReadFile or          *)
(* ReadDirectory of the version it got, one backend call at a step.          *)

ReaderCalls ==
    { [op |-> "ReadFile", path |-> <<"f">>],
      [op |-> "ReadFile", path |-> <<"d", "/", "n">>],
      [op |-> "ReadDirectory", path |-> <<"d">>] }

R == procs.r
\* moved records that a step of the reader found the current version changed
SetR(rec) == [procs EXCEPT !.r = [rec EXCEPT !.moved = @ \/ GetCurrentVersion(data) # rec.n]]
ReaderDone(err) == SetR([R EXCEPT !.pc = "done", !.err = err])

\* GetCurrentVersion; the reader goes on when it got a version n > 0
RGetCurrentVersion ==
    \E call \in ReaderCalls : \E n \in {GetCurrentVersion(data)} :
        /\ R.pc \in {"idle", "done"}
        /\ n > 0
        /\ procs' = SetR([IdleReader EXCEPT !.pc = "r_info", !.op = call.op,
                                            !.path = call.path, !.n = n])
        /\ UNCHANGED <<data, clock, last>>

\* ReadFile / ReadDirectory: GetVersionInfo(version)
RGetVersionInfo ==
    /\ R.pc = "r_info"
    /\ \E r \in {GetVersionInfo(data, R.n)} :
        procs' = IF r.err # "" THEN ReaderDone("version not found")
                 ELSE SetR([R EXCEPT !.pc = "r_commit", !.commit = r.info[1].CommitHash])
    /\ UNCHANGED <<data, clock, last>>

\* what findFileInTree decides before it reads a tree
FilePathError(path) ==
    IF path = <<>> THEN "empty path"
    ELSE IF Clean(path) = <<".">> THEN "cannot read directory as file"
    ELSE IF FilteredParts(Clean(path)) = <<>> THEN "invalid path"
    ELSE ""

\* the parts findDirectoryInTree walks
DirParts(path) ==
    IF path = <<>> \/ Clean(path) = <<".">> THEN <<>> ELSE FilteredParts(Clean(path))

\* ReadFile / ReadDirectory: GetCommit, and the start of the walk from its root
RGetCommit ==
    /\ R.pc = "r_commit"
    /\ \E r \in {GetCommit(data, R.commit)} :
        procs' = IF r.err # "" THEN ReaderDone("commit not found")
                 ELSE IF R.op = "ReadFile" /\ FilePathError(R.path) # ""
                 THEN ReaderDone(FilePathError(R.path))
                 ELSE SetR([R EXCEPT !.pc = "r_walk", !.hash = r.commit[1].RootTree,
                                     !.parts = IF R.op = "ReadFile"
                                               THEN FilteredParts(Clean(R.path))
                                               ELSE DirParts(R.path)])
    /\ UNCHANGED <<data, clock, last>>

\* one GetTree of the walk: a directory on the way, the final directory of
\* findFileInTree, or the directory ReadDirectory lists
RGetTree ==
    /\ R.pc = "r_walk"
    /\ \E t \in {GetTree(data, R.hash)} :
        procs' =
            IF R.op = "ReadDirectory" /\ R.parts = <<>>
            THEN IF t.err # "" THEN ReaderDone("failed to read tree")
                 ELSE SetR([R EXCEPT !.pc = "done", !.out = t.entries])
            ELSE IF R.op = "ReadFile" /\ Len(R.parts) = 1
            THEN IF t.err # "" THEN ReaderDone("failed to get final tree")
                 ELSE With(FindEntry(t.entries, R.parts[1], ObjectTypeBlob), LAMBDA e :
                      IF e = <<>> THEN ReaderDone("file not found")
                      ELSE SetR([R EXCEPT !.pc = "r_blob", !.hash = e[1].Hash]))
            ELSE IF t.err # "" THEN ReaderDone("failed to get tree")
                 ELSE With(FindEntry(t.entries, R.parts[1], ObjectTypeTree), LAMBDA e :
                      IF e = <<>> THEN ReaderDone("directory not found")
                      ELSE SetR([R EXCEPT !.hash = e[1].Hash, !.parts = Tail(@)]))
    /\ UNCHANGED <<data, clock, last>>

\* ReadFile: GetBlob
RGetBlob ==
    /\ R.pc = "r_blob"
    /\ \E b \in {GetBlob(data, R.hash)} :
        procs' = IF b.err # "" THEN ReaderDone("failed to read blob")
                 ELSE SetR([R EXCEPT !.pc = "done", !.out = b.content])
    /\ UNCHANGED <<data, clock, last>>

ReaderStep == RGetCurrentVersion \/ RGetVersionInfo \/ RGetCommit \/ RGetTree \/ RGetBlob

InitRead ==
    /\ data = CreateCommitFromFileSystem(EmptyBackend, <<FS3>>, Author, <<"m", "1">>, 0).d
    /\ clock = 0
    /\ last = NoCall
    /\ procs = [NoCalls EXCEPT !.limit = MaxCallsWithReader]

NextRead == WriterStep \/ ReaderStep

SpecRead == InitRead /\ [][NextRead]_vars

----------------------------------------------------------------------------
(* The patch functions on their own: a patch text is chosen, then validated, *)
(* parsed, or parsed and applied to some original content                    *)

MaxPatchLines == 3

\* all sequences over S of at most n elements
SeqsUpTo(S, n) == UNION {[1..k -> S] : k \in 0..n}

\* "@@ -1,1 +1,1 @@"
HunkHeader == ReplaceFirst[1]

\* The lines patch texts are made of: the two file headers, a hunk header,
\* a bare "@@", a deletion, an addition, an empty line
PatchLines ==
    { OldHeader(<<"f">>), NewHeader(<<"f">>), HunkHeader, <<"@", "@">>,
      <<"-", "x">>, <<"+", "y">>, <<>> }

\* a line of MaxScanTokenSize bytes
LongLine == [i \in 1..MaxScanTokenSize |-> "x"]

PatchTexts ==
    SeqsUpTo(PatchLines, MaxPatchLines)
    \cup {<<LongLine>> \o p : p \in SeqsUpTo({OldHeader(<<"f">>), NewHeader(<<"f">>)}, 2)}

\* Original contents: empty (also what a missing file reads as), with and
\* without a final newline, empty lines
Contents ==
    { <<>>, <<"x">>, <<"x", "\n">>, <<"x", "\n", "w">>, <<"\n">>, <<"x", "\n", "\n">> }

InitPatch ==
    /\ data = EmptyBackend
    /\ clock = 0
    /\ procs = NoCalls
    /\ \E p \in PatchTexts : last = [NoCall EXCEPT !.op = "input", !.in = <<p>>]

DoValidatePatch ==
    /\ last.op = "input"
    /\ last' = [op |-> "ValidatePatch", err |-> ValidatePatch(last.in[1]),
                in |-> last.in, out |-> <<>>, pre |-> data]
    /\ UNCHANGED <<data, clock, procs>>

DoParsePatch ==
    /\ last.op = "input"
    /\ \E r \in {ParsePatch(last.in[1])} :
           last' = [op |-> "ParsePatch", err |-> r.err, in |-> last.in,
                    out |-> <<r.patch>>, pre |-> data]
    /\ UNCHANGED <<data, clock, procs>>

DoApplyPatchToContent ==
    /\ last.op = "input"
    /\ \E originalContent \in Contents : \E r \in {ParsePatch(last.in[1])} :
           /\ r.err = ""
           /\ last' = [op |-> "applyPatchToContent", err |-> "",
                       in |-> <<last.in[1], originalContent>>,
                       out |-> <<applyPatchToContent(originalContent, r.patch)>>,
                       pre |-> data]
    /\ UNCHANGED <<data, clock, procs>>

NextPatch == DoValidatePatch \/ DoParsePatch \/ DoApplyPatchToContent

SpecPatch == InitPatch /\ [][NextPatch]_vars

----------------------------------------------------------------------------
(* The content store called directly, one call at a time, together with      *)
(* writes made to the backend behind its back                                *)

\* how many calls that write to the backend (stores, deletes, direct writes)
MaxStoreOps == 2

BlobInputs == { <<>>, <<"x">> }

BlobX == CreateObject(ObjectTypeBlob, BlobContent(<<"x">>))

\* two entries, not in name order; an entry whose name is not valid UTF-8
TreeInputs ==
    { << BlobEntry(<<"b">>, BlobX.hash, DefaultFileMode, 1, 0),
         BlobEntry(<<"a">>, BlobX.hash, DefaultFileMode, 1, 0) >>,
      << BlobEntry(<<"n", InvalidByte>>, BlobX.hash, DefaultFileMode, 1, 0) >> }

TreeB == CreateObject(ObjectTypeTree, TreeContent(
             << BlobEntry(<<"b">>, BlobX.hash, DefaultFileMode, 1, 0),
                BlobEntry(<<"a">>, BlobX.hash, DefaultFileMode, 1, 0) >>))

\* a first commit, and a second one whose author is not valid UTF-8
CommitInputs ==
    { NewCommit(TreeB.hash, <<>>, Author, <<"m", "1">>, 0, 1),
      NewCommit(TreeB.hash, <<ForeignHash("parent")>>, <<"d", InvalidByte>>,
                <<"m", "2">>, 1, 2) }

\* Objects handed to Store as they are: one of a type of its own, one whose
\* Size is not the length of its content, one whose Hash is of something else
ObjectInputs ==
    { CreateObject("tag", BlobContent(<<"x">>)),
      [BlobX EXCEPT !.size = 5],
      [BlobX EXCEPT !.hash = ForeignHash("other")] }

\* the string of n times the character c
Repeat(c, n) == [i \in 1..n |-> c]

\* Hashes given as strings: 64 hex digits in lower and in upper case; 63 and
\* 65 hex digits; 64 characters, one of them not a hex digit; one of them not
\* valid UTF-8; the empty string
LiteralHashes ==
    { LiteralHash(Repeat("a", HashLen)),
      LiteralHash(Repeat("A", HashLen)),
      LiteralHash(Repeat("a", HashLen - 1)),
      LiteralHash(Repeat("a", HashLen + 1)),
      LiteralHash(Append(Repeat("a", HashLen - 1), "g")),
      LiteralHash(Append(Repeat("a", HashLen - 1), InvalidByte)),
      LiteralHash(<<>>) }

StoreObjects ==
    {CreateObject(ObjectTypeBlob, BlobContent(c)) : c \in BlobInputs}
    \cup {CreateObject(ObjectTypeTree, TreeContent(t)) : t \in TreeInputs}
    \cup {CreateObject(ObjectTypeCommit, CommitContent(k)) : k \in CommitInputs}

HashInputs == {o.hash : o \in StoreObjects \cup ObjectInputs} \cup LiteralHashes

\* What a direct write can leave under the key of a stored object: the
\* content, the declared type, the size or the embedded hash altered, or
\* another well-formed object
Corruptions(obj) ==
    { [obj EXCEPT !.content = BlobContent(<<"y">>)],
      [obj EXCEPT !.type = IF obj.type = ObjectTypeBlob THEN ObjectTypeTree
                           ELSE ObjectTypeBlob],
      [obj EXCEPT !.size = obj.size + 1],
      [obj EXCEPT !.hash = ForeignHash("other")],
      CreateObject(ObjectTypeBlob, BlobContent(<<"z">>)) } \ {obj}

InitStore ==
    /\ data = EmptyBackend
    /\ clock = 0
    /\ last = NoCall
    /\ procs = [NoCalls EXCEPT !.limit = MaxStoreOps]

\* one more call that writes
Wrote == [procs EXCEPT !.started = @ + 1]

DoStoreBlob ==
    \E content \in BlobInputs :
    \E r \in {CSStore(data, CreateObject(ObjectTypeBlob, BlobContent(content)))} :
        /\ procs.started < procs.limit
        /\ data' = r.d
        /\ last' = [op |-> "StoreBlob", err |-> r.err, in |-> <<content>>,
                    out |-> <<r.hash>>, pre |-> data, calls |-> r.calls]
        /\ procs' = Wrote
        /\ UNCHANGED clock

DoStoreTree ==
    \E entries \in TreeInputs :
    \E r \in {CSStore(data, CreateObject(ObjectTypeTree, TreeContent(entries)))} :
        /\ procs.started < procs.limit
        /\ data' = r.d
        /\ last' = [op |-> "StoreTree", err |-> r.err, in |-> <<entries>>,
                    out |-> <<r.hash>>, pre |-> data, calls |-> r.calls]
        /\ procs' = Wrote
        /\ UNCHANGED clock

DoStoreCommit ==
    \E commit \in CommitInputs :
    \E r \in {CSStore(data, CreateObject(ObjectTypeCommit, CommitContent(commit)))} :
        /\ procs.started < procs.limit
        /\ data' = r.d
        /\ last' = [op |-> "StoreCommit", err |-> r.err, in |-> <<commit>>,
                    out |-> <<r.hash>>, pre |-> data, calls |-> r.calls]
        /\ procs' = Wrote
        /\ UNCHANGED clock

DoStore ==
    \E obj \in ObjectInputs : \E r \in {CSStore(data, obj)} :
        /\ procs.started < procs.limit
        /\ data' = r.d
        /\ last' = [op |-> "Store", err |-> r.err, in |-> <<obj>>,
                    out |-> <<r.hash>>, pre |-> data, calls |-> r.calls]
        /\ procs' = Wrote
        /\ UNCHANGED clock

DoGet ==
    \E hash \in HashInputs : \E r \in {CSGet(data, hash)} :
        /\ last' = [op |-> "Get", err |-> r.err, in |-> <<hash>>,
                    out |-> r.obj, pre |-> data, calls |-> r.calls]
        /\ UNCHANGED <<data, clock, procs>>

DoGetBlob ==
    \E hash \in HashInputs : \E r \in {GetBlob(data, hash)} :
        /\ last' = [op |-> "GetBlob", err |-> r.err, in |-> <<hash>>,
                    out |-> IF r.err = "" THEN <<r.content>> ELSE <<>>,
                    pre |-> data, calls |-> CSGet(data, hash).calls]
        /\ UNCHANGED <<data, clock, procs>>

DoGetTree ==
    \E hash \in HashInputs : \E r \in {GetTree(data, hash)} :
        /\ last' = [op |-> "GetTree", err |-> r.err, in |-> <<hash>>,
                    out |-> IF r.err = "" THEN <<r.entries>> ELSE <<>>,
                    pre |-> data, calls |-> CSGet(data, hash).calls]
        /\ UNCHANGED <<data, clock, procs>>

DoGetCommit ==
    \E hash \in HashInputs : \E r \in {GetCommit(data, hash)} :
        /\ last' = [op |-> "GetCommit", err |-> r.err, in |-> <<hash>>,
                    out |-> r.commit, pre |-> data, calls |-> CSGet(data, hash).calls]
        /\ UNCHANGED <<data, clock, procs>>

DoExists ==
    \E hash \in HashInputs : \E r \in {CSExists(data, hash)} :
        /\ last' = [op |-> "Exists", err |-> r.err, in |-> <<hash>>,
                    out |-> <<r.exists>>, pre |-> data, calls |-> r.calls]
        /\ UNCHANGED <<data, clock, procs>>

DoDelete ==
    \E hash \in HashInputs : \E r \in {CSDelete(data, hash)} :
        /\ procs.started < procs.limit
        /\ data' = r.d
        /\ last' = [op |-> "Delete", err |-> r.err, in |-> <<hash>>,
                    out |-> <<>>, pre |-> data, calls |-> r.calls]
        /\ procs' = Wrote
        /\ UNCHANGED clock

\* backend.Put on the key of a stored object, not through the store
DoCorrupt ==
    \E key \in List(data, "objects/") : \E bytes \in Corruptions(data[key]) :
        /\ procs.started < procs.limit
        /\ data' = Put(data, key, bytes)
        /\ last' = [op |-> "Corrupt", err |-> "", in |-> <<key.h>>,
                    out |-> <<bytes>>, pre |-> data, calls |-> 1]
        /\ procs' = Wrote
        /\ UNCHANGED clock

NextStore ==
    \/ DoStoreBlob \/ DoStoreTree \/ DoStoreCommit \/ DoStore
    \/ DoGet \/ DoGetBlob \/ DoGetTree \/ DoGetCommit
    \/ DoExists \/ DoDelete \/ DoCorrupt

SpecStore == InitStore /\ [][NextStore]_vars

----------------------------------------------------------------------------
(* Properties *)

Max(S) == CHOOSE x \in S : \A y \in S : y <= x

\* the last call, when it was ApplyPatch
LastPatch == ParsePatch(last.in[1])
LastTarget == TargetPath(LastPatch.patch)
ApplyPatchDone == last.op = "ApplyPatch"
ApplyPatchOk == last.op = "ApplyPatch" /\ last.err = ""
PreVersion == GetCurrentVersion(last.pre)

\* two paths name the same file: ReadFile resolves them to the same parts
SameFile(p, q) == FilteredParts(Clean(p)) = FilteredParts(Clean(q))

\* the content ReadFile gives, empty when the file does not exist
ContentAt(d, version, path) ==
    With(ReadFile(d, version, path), LAMBDA r : IF r.err = "" THEN r.content ELSE <<>>)

\* C1: after a successful ApplyPatch at version v >= 1 with target path p, the
\* current version is v+1 and ReadFile(v+1, p) returns the patch's hunks applied
\* to ReadFile(v, p) (to empty content if p did not exist at v).
C1_PatchedContentReadBack ==
    (ApplyPatchOk /\ PreVersion >= 1) =>
        /\ GetCurrentVersion(data) = PreVersion + 1
        /\ With(ReadFile(data, PreVersion + 1, LastTarget), LAMBDA r :
               /\ r.err = ""
               /\ r.content = applyPatchToContent(
                                  ContentAt(last.pre, PreVersion, LastTarget),
                                  LastPatch.patch))

\* C2: a call of ApplyPatch or CreateCommitFromFileSystem changes no result
\* ReadFile or ReadDirectory gave before it, and leaves the bytes under every
\* existing objects/<hash> and version/info/<n> key as they were.
C2_OldVersionsImmutable ==
    last.op \in {"ApplyPatch", "CreateCommitFromFileSystem"} =>
        /\ \A v \in 1..MaxVersion, p \in ReadPaths :
               With(ReadFile(last.pre, v, p), LAMBDA before :
                   before.err = "" => ReadFile(data, v, p) = before)
        /\ \A v \in 1..MaxVersion, p \in DirPaths :
               With(ReadDirectory(last.pre, v, p), LAMBDA before :
                   before.err = "" => ReadDirectory(data, v, p) = before)
        /\ \A k \in DOMAIN last.pre :
               k.ns \in {"objects/", "version/info/"} =>
                   k \in DOMAIN data /\ data[k] = last.pre[k]

\* C2 witness: a patch created version 2 with new content for a file, and
\* version 1 still reads as before
C2_Witness ==
    /\ ApplyPatchOk /\ PreVersion = 1
    /\ \E p \in ReadPaths :
           /\ ReadFile(last.pre, 1, p).err = ""
           /\ ReadFile(data, 2, p).err = ""
           /\ ReadFile(data, 2, p).content # ReadFile(data, 1, p).content

\* the directories on the way to the target, the root first: <<>>, then each
\* proper prefix of the target's parts
TargetParts == Split(TrimSlash(LastTarget), "/")
IsAncestorOf(dirParts, targetParts) ==
    /\ Len(dirParts) < Len(targetParts)
    /\ SubSeq(targetParts, 1, Len(dirParts)) = dirParts
IsAncestorOfTarget(dirPath) == IsAncestorOf(FilteredParts(Clean(dirPath)), TargetParts)

\* the tree hash of a directory of a version
DirHash(d, version, dirPath) ==
    findDirectoryInTree(d, GetCommit(d, GetVersionInfo(d, version).info[1].CommitHash)
                               .commit[1].RootTree, dirPath)

\* two ReadFile results agree: the same bytes, or no file both times
SameRead(r1, r2) == (r1.err = "") = (r2.err = "") /\ r1.content = r2.content

\* every entry of old other than the one called onPath is at the same place
\* in new, with its name, type and hash
CarriedOver(old, new, onPath) ==
    \A i \in 1..Len(old) :
        old[i].Name # onPath =>
            /\ i <= Len(new)
            /\ new[i].Name = old[i].Name
            /\ new[i].Type = old[i].Type
            /\ new[i].Hash = old[i].Hash

\* C3: after a successful ApplyPatch with target p from v to v+1, every file
\* other than p reads the same in v+1 as in v (and a path that named no file
\* still names none), every directory that is not an ancestor of p has the
\* same tree hash, and in the directories on the way to p every entry other
\* than the one leading to p is carried over with its name, type and hash.
C3_StructuralSharing ==
    (ApplyPatchOk /\ PreVersion >= 1) =>
        /\ \A q \in ReadPaths :
               ~SameFile(q, LastTarget) =>
                   SameRead(ReadFile(data, PreVersion + 1, q),
                            ReadFile(last.pre, PreVersion, q))
        /\ \A dd \in DirPaths :
               With(DirHash(last.pre, PreVersion, dd), LAMBDA before :
                   (~IsAncestorOfTarget(dd) /\ before.err = "") =>
                       DirHash(data, PreVersion + 1, dd) = before)
        /\ \A dd \in DirPaths :
               With(ReadDirectory(last.pre, PreVersion, dd), LAMBDA before :
                   (IsAncestorOfTarget(dd) /\ before.err = "") =>
                       CarriedOver(before.entries,
                                   ReadDirectory(data, PreVersion + 1, dd).entries,
                                   TargetParts[Len(FilteredParts(Clean(dd))) + 1]))

\* C3 witness: a file two directories deep was patched while a sibling
\* directory with files of its own exists
C3_Witness ==
    /\ ApplyPatchOk /\ PreVersion >= 1
    /\ LastTarget = <<"d", "/", "e", "/", "h">>
    /\ ReadFile(data, PreVersion + 1, LastTarget).content
           # ReadFile(last.pre, PreVersion, LastTarget).content
    /\ DirHash(last.pre, PreVersion, <<"s">>).err = ""
    /\ DirHash(data, PreVersion + 1, <<"d">>) # DirHash(last.pre, PreVersion, <<"d">>)

\* C4: the current version of an empty backend is 0, and a CreateVersion call
\* returns the previous current version plus one, stores the info under that
\* number with the commit hash given, and makes it the current and the latest
\* version.
C4_CreateVersionAdvances ==
    /\ (DOMAIN data = {} => GetCurrentVersion(data) = 0)
    /\ (last.op = "CreateVersion" =>
           LET n == PreVersion + 1 IN
           /\ last.err = ""
           /\ last.out[1].Version = n
           /\ last.out[1].CommitHash = last.in[1]
           /\ GetVersionInfo(data, n).err = ""
           /\ GetVersionInfo(data, n).info[1].Version = n
           /\ GetVersionInfo(data, n).info[1].CommitHash = last.in[1]
           /\ GetCurrentVersion(data) = n
           /\ GetLatestVersionInfo(data).err = ""
           /\ GetLatestVersionInfo(data).info[1].Version = n)

\* C4 witness: the second CreateVersion in a row
C4_Witness ==
    last.op = "CreateVersion" /\ PreVersion = 1 /\ GetCurrentVersion(data) = 2

\* C5: the current version is the largest stored version number, or 0 when no
\* version info is stored; in particular the info of a current version n > 0
\* can be read.
C5_CurrentIsHighestStored ==
    /\ GetCurrentVersion(data) = Max(StoredVersions(data) \cup {0})
    /\ (GetCurrentVersion(data) > 0 =>
            GetVersionInfo(data, GetCurrentVersion(data)).err = "")

\* the successful calls so far of the concurrent writers, in the order they returned
Returned == procs.hist
AllReturned == \A p \in Writers : W(p).pc \in {"idle", "done"}

\* C6: under concurrent callers no two successful calls return the same version
\* number, and once every call has returned, version/info/<n> of each returned
\* number n names the commit of the call that returned n.
C6_VersionsOneToOne ==
    /\ \A i, j \in DOMAIN Returned :
           i # j => Returned[i].version # Returned[j].version
    /\ AllReturned =>
           \A i \in DOMAIN Returned :
               With(GetVersionInfo(data, Returned[i].version), LAMBDA vi :
                   vi.err = "" /\ vi.info[1].CommitHash = Returned[i].commit)

\* both writers have returned from a successful ApplyPatch that read the same
\* current version
BothPatchedSameVersion ==
    /\ \A p \in Writers : W(p).pc = "done" /\ W(p).op = "ApplyPatch" /\ W(p).err = ""
    /\ W(1).cur = W(2).cur

\* some stored version info names the commit
Referenced(d, commitHash) ==
    \E n \in StoredVersions(d) : GetVersionInfo(d, n).info[1].CommitHash = commitHash

\* the commit is stored and its parent is the commit of version v
ChildOfVersion(d, commitHash, v) ==
    With(GetCommit(d, commitHash), LAMBDA c :
        /\ c.err = ""
        /\ c.commit[1].Parent = <<GetVersionInfo(d, v).info[1].CommitHash>>)

MissingErrors ==
    {"version not found", "commit not found", "failed to get tree",
     "failed to get final tree", "failed to read blob", "failed to read tree"}

\* ReadFile or ReadDirectory of the tree of a commit, taken in one step
ReadOfCommit(d, op, commitHash, path) ==
    With(GetCommit(d, commitHash).commit[1].RootTree, LAMBDA rootTree :
    IF op = "ReadFile"
    THEN With(readFileFromTree(d, rootTree, path), LAMBDA f :
              [err |-> f.err, out |-> f.content])
    ELSE With(findDirectoryInTree(d, rootTree, path), LAMBDA f :
              IF f.err # "" THEN [err |-> f.err, out |-> <<>>]
              ELSE [err |-> "", out |-> GetTree(d, f.hash).entries]))

C9_BadTargetRejected ==
    (ApplyPatchDone /\ LastPatch.err = ""
        /\ (ContainsDotDot(LastTarget) \/ HasPrefix(LastTarget, <<"/">>))) =>
        /\ last.err # ""
        /\ data = last.pre
        /\ GetCurrentVersion(data) = PreVersion

\* C9 witness: such a patch was submitted to a repository with a commit
C9_Witness ==
    /\ ApplyPatchDone /\ LastPatch.err = "" /\ PreVersion >= 1
    /\ LastTarget = <<".", ".", "/", "f">>
    /\ last.err = "path traversal not allowed in patch target"

\* C10: ApplyPatch with a well-formed patch on a repository at version 0 fails
\* with the empty-repository error and writes nothing.
C10_EmptyRepositoryRejected ==
    (ApplyPatchDone /\ LastPatch.err = "" /\ PreVersion = 0) =>
        /\ last.err = "cannot apply patch to empty repository"
        /\ data = last.pre
        /\ GetCurrentVersion(data) = 0
        /\ List(data, "objects/") = {}

\* C10 witness: a well-formed patch with a valid target was submitted at version 0
C10_Witness ==
    /\ ApplyPatchDone /\ LastPatch.err = "" /\ PreVersion = 0
    /\ ValidateTargetPath(LastTarget) = ""
    /\ Len(LastPatch.patch.Hunks) = 1

----------------------------------------------------------------------------
(* Properties of the patch functions *)

IsHeaderLine(line) == HasPrefix(line, OldHeaderPrefix) \/ HasPrefix(line, NewHeaderPrefix)
IsHunkLine(line) == HasPrefix(line, <<"@", "@">>)

\* the error the classification of malformed patches gives a patch text
ExpectedPatchError(p) ==
    IF p = <<>> THEN "patch data is empty"
    ELSE IF \E i \in 1..Len(p) :
                IsHunkLine(p[i]) /\ \A j \in 1..(i - 1) : ~IsHeaderLine(p[j])
         THEN "patch has hunk without proper file headers"
    ELSE IF \A i \in 1..Len(p) : ~IsHeaderLine(p[i])
         THEN "patch does not contain valid unified diff headers"
    ELSE ""

\* C11: ValidatePatch and ParsePatch fail with the empty-patch error on empty
\* input, with the hunk-without-header error when a line starting "@@" comes
\* before every "--- " / "+++ " line, with the missing-headers error when no
\* line starts "--- " or "+++ " (and none "@@"), and accept every other input.
C11_PatchClassification ==
    last.op \in {"ValidatePatch", "ParsePatch"} =>
        last.err = ExpectedPatchError(last.in[1])

\* C12: a patch of file headers only parses with no error and no hunks, and
\* applying a patch without hunks gives back the original content, byte for
\* byte, whether or not that content ends in a newline.
C12_NoHunksIsNoOp ==
    /\ (/\ last.op = "ParsePatch"
        /\ last.in[1] # <<>>
        /\ \A i \in 1..Len(last.in[1]) : IsHeaderLine(last.in[1][i]))
           => (last.err = "" /\ last.out[1].Hunks = <<>>)
    /\ (last.op = "applyPatchToContent" /\ LastPatch.patch.Hunks = <<>>)
           => last.out[1] = last.in[2]

----------------------------------------------------------------------------
(* Properties of the content store *)

StoreOk(op) == last.op = op /\ last.err = ""

\* C13: GetBlob(StoreBlob(c)) returns exactly c, GetTree(StoreTree(t)) returns
\* the entries of t in the same order, and GetCommit(StoreCommit(k)) returns
\* k's rootTree, parent, author, message and version.
C13_StoreGetRoundTrip ==
    /\ last.op \in {"StoreBlob", "StoreTree", "StoreCommit"} => last.err = ""
    /\ StoreOk("StoreBlob") =>
           GetBlob(data, last.out[1]) = [err |-> "", content |-> last.in[1]]
    /\ StoreOk("StoreTree") =>
           GetTree(data, last.out[1]) = [err |-> "", entries |-> last.in[1]]
    /\ StoreOk("StoreCommit") =>
           With(GetCommit(data, last.out[1]), LAMBDA r :
               /\ r.err = ""
               /\ r.commit[1].RootTree = last.in[1].RootTree
               /\ r.commit[1].Parent = last.in[1].Parent
               /\ r.commit[1].Author = last.in[1].Author
               /\ r.commit[1].Message = last.in[1].Message
               /\ r.commit[1].Version = last.in[1].Version)

\* the object the last StoreBlob, StoreTree or StoreCommit call created
LastStored ==
    CASE last.op = "StoreBlob" -> CreateObject(ObjectTypeBlob, BlobContent(last.in[1]))
      [] last.op = "StoreTree" -> CreateObject(ObjectTypeTree, TreeContent(last.in[1]))
      [] last.op = "StoreCommit" -> CreateObject(ObjectTypeCommit, CommitContent(last.in[1]))

\* the last call stored content that an earlier store had left in the backend
StoredAgain ==
    /\ last.op \in {"StoreBlob", "StoreTree", "StoreCommit"}
    /\ Exists(last.pre, ObjectKey(LastStored.hash))
    /\ last.pre[ObjectKey(LastStored.hash)] = LastStored

\* C14: storing the same blob, tree or commit content a second time returns
\* the same hash with no error and leaves the set of backend keys and the
\* bytes under every key as they were after the first store.
C14_StoreIdempotent ==
    StoredAgain =>
        /\ last.err = ""
        /\ last.out[1] = LastStored.hash
        /\ data = last.pre

C14_Witness == StoredAgain /\ last.op = "StoreTree" /\ last.err = ""

\* the last call was a direct write over the object a store call had left
\* under objects/<h>
Corrupted ==
    /\ last.op = "Corrupt"
    /\ VerifyObject(last.pre[ObjectKey(last.in[1])]) = ""
    /\ last.pre[ObjectKey(last.in[1])].hash = last.in[1]

IntegrityError == "stored object verification failed"

\* C15: after any direct change of the bytes under objects/<h> (content, type,
\* size field or embedded hash altered, or replaced by another valid object),
\* the next Get, GetBlob, GetTree and GetCommit of h return an integrity error,
\* and Get never returns an object that differs from the one stored under h.
C15_CorruptionDetected ==
    Corrupted =>
        /\ CSGet(data, last.in[1]).err = IntegrityError
        /\ GetBlob(data, last.in[1]).err = IntegrityError
        /\ GetTree(data, last.in[1]).err = IntegrityError
        /\ GetCommit(data, last.in[1]).err = IntegrityError
        /\ CSGet(data, last.in[1]).obj \in {<<>>, <<last.pre[ObjectKey(last.in[1])]>>}

\* the typed accessors, the type each asks for and the error it gives for
\* another type
Accessors == {"GetBlob", "GetTree", "GetCommit"}

AccessorType ==
    CASE last.op = "GetBlob" -> ObjectTypeBlob
      [] last.op = "GetTree" -> ObjectTypeTree
      [] last.op = "GetCommit" -> ObjectTypeCommit

TypeMismatch ==
    CASE last.op = "GetBlob" -> "object is not a blob"
      [] last.op = "GetTree" -> "object is not a tree"
      [] last.op = "GetCommit" -> "object is not a commit"

\* the last call was an accessor on a hash with something stored under it
AccessedStored == last.op \in Accessors /\ Exists(last.pre, ObjectKey(last.in[1]))

Accessed == last.pre[ObjectKey(last.in[1])]

\* C16 as stated: GetBlob, GetTree and GetCommit succeed only when the object
\* stored under the hash has declared type blob, tree and commit respectively,
\* and on a hash whose stored object has any other type each returns a
\* type-mismatch error and no object.
C16_TypeMismatchForAnyStored ==
    /\ (last.op \in Accessors /\ last.err = "") =>
           (AccessedStored /\ Accessed.type = AccessorType)
    /\ (AccessedStored /\ Accessed.type # AccessorType) =>
           (last.err = TypeMismatch /\ last.out = <<>>)

\* C16: GetBlob, GetTree and GetCommit succeed only when the object stored
\* under the hash has declared type blob, tree and commit respectively; on a
\* hash whose stored object passes the integrity check and has any other type
\* each returns a type-mismatch error and no object, and on a hash whose stored
\* object fails the integrity check each returns the integrity error and no
\* object, whatever its declared type.
C16_TypeChecked ==
    /\ (last.op \in Accessors /\ last.err = "") =>
           (AccessedStored /\ Accessed.type = AccessorType)
    /\ (AccessedStored /\ VerifyObject(Accessed) = "" /\ Accessed.type # AccessorType) =>
           (last.err = TypeMismatch /\ last.out = <<>>)
    /\ (AccessedStored /\ VerifyObject(Accessed) # "") =>
           (last.err = IntegrityError /\ last.out = <<>>)

C16_Witness ==
    /\ AccessedStored
    /\ last.op = "GetTree"
    /\ VerifyObject(Accessed) = ""
    /\ Accessed.type = ObjectTypeBlob
    /\ last.err = "object is not a tree"

\* a string of exactly 64 characters, each a hex digit
IsSixtyFourHex(chars) ==
    /\ Len(chars) = 64
    /\ \A i \in 1..Len(chars) :
           chars[i] \in {"0", "1", "2", "3", "4", "5", "6", "7", "8", "9",
                         "a", "b", "c", "d", "e", "f",
                         "A", "B", "C", "D", "E", "F"}

\* the last call was Get, Exists or Delete with a hash given as a string
HashCall == last.op \in {"Get", "Exists", "Delete"} /\ ~last.in[1].hex

\* C17: ValidateHash succeeds exactly for strings of 64 hex characters, and
\* Get, Exists and Delete called with a hash that fails validation return an
\* error without a backend call, the backend state unchanged.
C17_InvalidHashRejected ==
    /\ HashCall =>
           (ValidateHash(last.in[1]) = "" <=> IsSixtyFourHex(last.in[1].pre.content.blob))
    /\ (HashCall /\ ~IsSixtyFourHex(last.in[1].pre.content.blob)) =>
           /\ last.err = "invalid hash"
           /\ last.calls = 0
           /\ data = last.pre
           /\ last.out \in {<<>>, <<FALSE>>}

C17_Witness ==
    /\ HashCall
    /\ last.op = "Delete"
    /\ Len(last.in[1].pre.content.blob) = 64
    /\ ~IsSixtyFourHex(last.in[1].pre.content.blob)
    /\ last.err = "invalid hash"
    /\ last.pre # EmptyBackend

----------------------------------------------------------------------------
(* Properties of the object graph *)

\* every entry of the tree under hash, and of every tree below it, names a
\* stored object of the entry's type
RECURSIVE TreeClosed(_, _)
TreeClosed(d, hash) ==
    With(GetTree(d, hash), LAMBDA r :
        /\ r.err = ""
        /\ \A i \in 1..Len(r.entries) :
               IF r.entries[i].Type = ObjectTypeTree
               THEN TreeClosed(d, r.entries[i].Hash)
               ELSE /\ r.entries[i].Type = ObjectTypeBlob
                    /\ GetBlob(d, r.entries[i].Hash).err = "")

\* the commit of version n is stored, with its root tree, its parent and all
\* that the root tree reaches
VersionClosed(d, n) ==
    With(GetVersionInfo(d, n), LAMBDA v :
        /\ v.err = ""
        /\ With(GetCommit(d, v.info[1].CommitHash), LAMBDA c :
               /\ c.err = ""
               /\ \A i \in 1..Len(c.commit[1].Parent) :
                      GetCommit(d, c.commit[1].Parent[i]).err = ""
               /\ TreeClosed(d, c.commit[1].RootTree)))

\* C18: after any sequence of CreateCommitFromFileSystem and ApplyPatch calls,
\* for every version n in 1..current the commit named by version/info/<n> is
\* stored, its rootTree is stored as a tree, its parent (if any) is stored as a
\* commit, and every entry of every tree reachable from the root names a stored
\* object whose declared type equals the entry's type.
C18_NoDanglingReferences ==
    \A n \in 1..GetCurrentVersion(data) : VersionClosed(data, n)

\* version 2 made by a patch that added a file in a new directory
C18_Witness ==
    /\ ApplyPatchOk
    /\ GetCurrentVersion(data) = 2
    /\ VersionClosed(data, 2)
    /\ With(GetCommit(data, GetVersionInfo(data, 2).info[1].CommitHash), LAMBDA c :
           /\ c.commit[1].Parent # <<>>
           /\ \E i \in 1..Len(GetTree(data, c.commit[1].RootTree).entries) :
                  /\ GetTree(data, c.commit[1].RootTree).entries[i].Type = ObjectTypeTree
                  /\ ~\E j \in 1..Len(GetTree(last.pre, GetCommit(last.pre, c.commit[1].Parent[1]).commit[1].RootTree).entries) :
                         GetTree(last.pre, GetCommit(last.pre, c.commit[1].Parent[1]).commit[1].RootTree).entries[j].Name
                             = GetTree(data, c.commit[1].RootTree).entries[i].Name)

----------------------------------------------------------------------------
(* The repository and DeleteVersion, one call at a time, the call before the *)
(* last one kept                                                              *)

\* how many calls are made
MaxRepoCalls == 5

RepoFileSystems == {<<FS3>>}

InitRepo ==
    /\ data = EmptyBackend
    /\ clock = 0
    /\ last = NoCall
    /\ procs = [NoCalls EXCEPT !.limit = MaxRepoCalls]

\* one more call made; hist holds the call that was the last one before it
Called ==
    [procs EXCEPT !.started = @ + 1,
                  !.hist = <<[op |-> last.op, err |-> last.err, in |-> last.in,
                              out |-> last.out]>>]

RepoCreateCommitFromFileSystem ==
    \E root \in RepoFileSystems, m \in Messages :
    \E r \in {CreateCommitFromFileSystem(data, root, Author, m, clock)} :
        /\ procs.started < procs.limit
        /\ GetCurrentVersion(data) < MaxVersion
        /\ data' = r.d
        /\ last' = [op |-> "CreateCommitFromFileSystem", err |-> r.err,
                    in |-> <<root, m>>, out |-> r.info, pre |-> data]
        /\ procs' = Called
        /\ UNCHANGED clock

RepoApplyPatch ==
    \E patchData \in ConcPatches, m \in Messages :
    \E r \in {ApplyPatch(data, patchData, Author, m, clock)} :
        /\ procs.started < procs.limit
        /\ GetCurrentVersion(data) < MaxVersion
        /\ data' = r.d
        /\ last' = [op |-> "ApplyPatch", err |-> r.err,
                    in |-> <<patchData, m>>, out |-> r.info, pre |-> data]
        /\ procs' = Called
        /\ UNCHANGED clock

RepoDeleteVersion ==
    \E v \in 1..MaxVersion : \E r \in {DeleteVersion(data, v)} :
        /\ procs.started < procs.limit
        /\ data' = r.d
        /\ last' = [op |-> "DeleteVersion", err |-> r.err, in |-> <<v>>,
                    out |-> <<>>, pre |-> data]
        /\ procs' = Called
        /\ UNCHANGED clock

NextRepo == RepoCreateCommitFromFileSystem \/ RepoApplyPatch \/ RepoDeleteVersion \/ Tick

SpecRepo == InitRepo /\ [][NextRepo]_vars

\* the last call made a commit: the commit, and the version that was current
CommitMade == last.op \in {"CreateCommitFromFileSystem", "ApplyPatch"} /\ last.err = ""

MadeCommit == GetCommit(data, last.out[1].CommitHash).commit[1]

\* C19: in any sequence of CreateCommitFromFileSystem, ApplyPatch and
\* DeleteVersion calls, a commit created while the current version is c >= 1
\* has as parent the commit hash recorded for version c at the time of the
\* call, and a commit has no parent only when the current version was 0.
C19_ParentLinkage ==
    CommitMade =>
        /\ PreVersion >= 1 =>
               /\ GetVersionInfo(last.pre, PreVersion).err = ""
               /\ MadeCommit.Parent = <<GetVersionInfo(last.pre, PreVersion).info[1].CommitHash>>
        /\ MadeCommit.Parent = <<>> => PreVersion = 0

\* the last two calls were CreateCommitFromFileSystem over the same directory
\* tree, both successful
SameTreeTwice ==
    /\ last.op = "CreateCommitFromFileSystem"
    /\ last.err = ""
    /\ procs.hist # <<>>
    /\ procs.hist[1].op = "CreateCommitFromFileSystem"
    /\ procs.hist[1].err = ""
    /\ procs.hist[1].in[1] = last.in[1]

\* C20: two consecutive CreateCommitFromFileSystem calls over the same
\* unchanged directory tree create two distinct versions n and n+1 and two
\* distinct commits whose rootTree hashes are equal, and the second call adds
\* no new blob or tree object keys to the backend.
C20_SameTreeTwice ==
    SameTreeTwice =>
        /\ last.out[1].Version = procs.hist[1].out[1].Version + 1
        /\ last.out[1].CommitHash # procs.hist[1].out[1].CommitHash
        /\ GetCommit(last.pre, procs.hist[1].out[1].CommitHash).err = ""
        /\ GetCommit(data, last.out[1].CommitHash).err = ""
        /\ MadeCommit.RootTree =
               GetCommit(last.pre, procs.hist[1].out[1].CommitHash).commit[1].RootTree
        /\ \A key \in List(data, "objects/") \ List(last.pre, "objects/") :
               data[key].type = ObjectTypeCommit

\* the second of two such calls, made at a later time and over a tree with
\* directories
C20_Witness ==
    /\ SameTreeTwice
    /\ last.in[1] = <<FS3>>
    /\ last.out[1].Version = 2
    /\ MadeCommit.Timestamp # GetCommit(last.pre, procs.hist[1].out[1].CommitHash).commit[1].Timestamp
    /\ List(data, "objects/") # List(last.pre, "objects/")

----------------------------------------------------------------------------
(* Properties of DeleteVersion and ListVersions *)

DeleteDone == last.op = "DeleteVersion"

\* the version a DeleteVersion call was given existed before the call
DeletedExisting == DeleteDone /\ GetVersionInfo(last.pre, last.in[1]).err = ""

\* C21: DeleteVersion(n) on an existing version n removes version/info/<n> and
\* the reverse mapping of n's commit, so that GetVersionInfo(n) and
\* GetVersionByCommit(commit of n) fail; the current version becomes n-1 (0
\* when n = 1) if n was current and is unchanged otherwise; DeleteVersion of a
\* version that does not exist returns an error and changes nothing.
C21_DeleteVersion ==
    /\ DeletedExisting =>
           /\ GetVersionInfo(data, last.in[1]).err # ""
           /\ GetVersionByCommit(data,
                  GetVersionInfo(last.pre, last.in[1]).info[1].CommitHash).err # ""
           /\ GetCurrentVersion(data) =
                  IF last.in[1] # GetCurrentVersion(last.pre) THEN GetCurrentVersion(last.pre)
                  ELSE IF last.in[1] = 1 THEN 0
                  ELSE last.in[1] - 1
    /\ (DeleteDone /\ ~DeletedExisting) => (last.err # "" /\ data = last.pre)

ListDone == last.op = "ListVersions"

\* the version numbers of the infos a ListVersions call returned
ListedVersions == {last.out[i].Version : i \in 1..Len(last.out)}

----------------------------------------------------------------------------
(* Reads of a repository: ReadFile and ReadDirectory called between commits  *)

\* Paths given to ReadFile and ReadDirectory: files, directories and names
\* that do not exist, written with ".", "..", "//" and a leading "/"
QueryPaths ==
    { <<"f">>, <<"d", "/", "g">>, <<"d", "/", "n">>, <<"d">>,
      <<"f", "/", "g">>, <<"x", "/", "g">>,
      <<>>, <<".">>, <<"/">>, <<".", "/", "f">>, <<"d", "/", ".", "/", "g">>,
      <<".", "/", "d">>, <<"d", "/", "/", "g">>, <<"/", "f">>,
      <<"x", "/", ".", ".", "/", "f">>, <<"d", "/", ".", ".", "/", "f">>,
      <<"x", "/", ".", ".", "/", "d">>, <<".", ".", "/", "f">> }

\* a file added to a directory; a target written with a "." segment
QueryPatches ==
    { PatchOf(<<"d", "/", "n">>, AddLine), PatchOf(<<".", "/", "f">>, ReplaceFirst) }

QueryCreateCommitFromFileSystem ==
    \E m \in Messages :
    \E r \in {CreateCommitFromFileSystem(data, <<FS3>>, Author, m, clock)} :
        /\ GetCurrentVersion(data) < MaxVersion
        /\ data' = r.d
        /\ last' = [op |-> "CreateCommitFromFileSystem", err |-> r.err,
                    in |-> <<<<FS3>>, m>>, out |-> r.info, pre |-> data]
        /\ UNCHANGED <<clock, procs>>

QueryApplyPatch ==
    \E patchData \in QueryPatches, m \in Messages :
    \E r \in {ApplyPatch(data, patchData, Author, m, clock)} :
        /\ GetCurrentVersion(data) < MaxVersion
        /\ data' = r.d
        /\ last' = [op |-> "ApplyPatch", err |-> r.err,
                    in |-> <<patchData, m>>, out |-> r.info, pre |-> data]
        /\ UNCHANGED <<clock, procs>>

DoReadFile ==
    \E version \in 0..MaxVersion, path \in QueryPaths :
    \E r \in {ReadFile(data, version, path)} :
        /\ last' = [op |-> "ReadFile", err |-> r.err, in |-> <<version, path>>,
                    out |-> IF r.err = "" THEN <<r.content>> ELSE <<>>, pre |-> data]
        /\ UNCHANGED <<data, clock, procs>>

DoReadDirectory ==
    \E version \in 0..MaxVersion, path \in QueryPaths :
    \E r \in {ReadDirectory(data, version, path)} :
        /\ last' = [op |-> "ReadDirectory", err |-> r.err, in |-> <<version, path>>,
                    out |-> IF r.err = "" THEN <<r.entries>> ELSE <<>>, pre |-> data]
        /\ UNCHANGED <<data, clock, procs>>

NextQuery ==
    \/ QueryCreateCommitFromFileSystem \/ QueryApplyPatch
    \/ DoReadFile \/ DoReadDirectory

SpecQuery == Init /\ [][NextQuery]_vars

----------------------------------------------------------------------------
(* Properties of ReadFile and ReadDirectory *)

\* the segments of a path, those that are empty or "." dropped
Segments(path) == SelectSeq(Split(path, "/"), LAMBDA part : part # <<>> /\ part # <<".">>)

\* the segments of a path after each pair "name/.." is cancelled as well
CleanSegments(path) == FilteredParts(Clean(path))

\* two paths that differ only by "." segments
SameButDots(p, q) ==
    SelectSeq(Split(p, "/"), LAMBDA part : part # <<".">>)
        = SelectSeq(Split(q, "/"), LAMBDA part : part # <<".">>)

\* the first entry of the tree under hash with the name and the type, if any
EntryNamed(d, hash, name, type) ==
    With(GetTree(d, hash).entries, LAMBDA entries :
    With({i \in 1..Len(entries) : entries[i].Name = name /\ entries[i].Type = type},
         LAMBDA found :
         IF found = {} THEN <<>>
         ELSE <<entries[CHOOSE i \in found : \A j \in found : i <= j]>>))

\* the tree reached from the tree under hash by matching each segment against
\* an entry of type tree; none if a segment has no such entry
RECURSIVE TreeReached(_, _, _)
TreeReached(d, hash, segments) ==
    IF segments = <<>> THEN <<hash>>
    ELSE With(EntryNamed(d, hash, Head(segments), ObjectTypeTree), LAMBDA e :
         IF e = <<>> THEN <<>> ELSE TreeReached(d, e[1].Hash, Tail(segments)))

RootTreeOf(d, version) ==
    GetCommit(d, GetVersionInfo(d, version).info[1].CommitHash).commit[1].RootTree

\* what ReadFile is to give for the segments of a path
FileExpected(d, version, segments) ==
    IF GetVersionInfo(d, version).err # "" THEN [err |-> "version not found", content |-> <<>>]
    ELSE IF segments = <<>> THEN [err |-> "no file named", content |-> <<>>]
    ELSE With(TreeReached(d, RootTreeOf(d, version), SubSeq(segments, 1, Len(segments) - 1)),
              LAMBDA dir :
         IF dir = <<>> THEN [err |-> "directory not found", content |-> <<>>]
         ELSE With(EntryNamed(d, dir[1], segments[Len(segments)], ObjectTypeBlob), LAMBDA e :
              IF e = <<>> THEN [err |-> "file not found", content |-> <<>>]
              ELSE [err |-> "", content |-> GetBlob(d, e[1].Hash).content]))

\* ReadFile's errors for a path that names no file at all
NoFileNamed == {"empty path", "cannot read directory as file", "invalid path"}

\* the last call was ReadFile and gave what is expected for the segments
ReadFileGave(expected) ==
    /\ expected.err = "" => (last.err = "" /\ last.out = <<expected.content>>)
    /\ expected.err = "no file named" => last.err \in NoFileNamed
    /\ expected.err \notin {"", "no file named"} => last.err = expected.err

ReadFileDone == last.op = "ReadFile"

\* C23 as stated: ReadFile fails if the version has no info; otherwise it drops
\* '.' segments, matches every non-final segment against an entry of that name
\* and type tree (directory-not-found if none) and the final segment against an
\* entry of that name and type blob (file-not-found if none) and returns that
\* blob's content; an empty path or one that cleans to '.' fails; two paths
\* that differ only by '.' segments give the same result.
C23_ReadFileBySegments ==
    ReadFileDone =>
        /\ ReadFileGave(FileExpected(data, last.in[1], Segments(last.in[2])))
        /\ \A q \in QueryPaths :
               SameButDots(q, last.in[2]) =>
                   ReadFile(data, last.in[1], q) = ReadFile(data, last.in[1], last.in[2])

\* C23: ReadFile fails if the version has no info; otherwise it cleans the
\* path (drops '.' and empty segments and cancels every segment that a '..'
\* follows, without looking that segment up), matches every non-final segment
\* that is left against an entry of that name and type tree and the final one
\* against an entry of that name and type blob, and returns that blob's
\* content; a path with no segment left fails; two paths that differ only by
\* '.' segments give the same result.
C23_ReadFileResolution ==
    ReadFileDone =>
        /\ ReadFileGave(FileExpected(data, last.in[1], CleanSegments(last.in[2])))
        /\ \A q \in QueryPaths :
               SameButDots(q, last.in[2]) =>
                   ReadFile(data, last.in[1], q) = ReadFile(data, last.in[1], last.in[2])

\* a file read through a path with a '.' segment, in a version made by a patch
C23_Witness ==
    /\ ReadFileDone
    /\ last.in = <<2, <<"d", "/", ".", "/", "g">>>>
    /\ last.err = ""
    /\ last.out = << <<"x", "\n">> >>
    /\ ReadFile(data, 2, <<"d">>).err = "file not found"
    /\ ReadFile(data, 2, <<"x", "/", "g">>).err = "directory not found"

\* what ReadDirectory is to give for the segments of a path
DirectoryExpected(d, version, segments) ==
    IF GetVersionInfo(d, version).err # "" THEN [err |-> "version not found", entries |-> <<>>]
    ELSE With(TreeReached(d, RootTreeOf(d, version), segments), LAMBDA dir :
         IF dir = <<>> THEN [err |-> "directory not found", entries |-> <<>>]
         ELSE [err |-> "", entries |-> GetTree(d, dir[1]).entries])

\* the last call was ReadDirectory and gave what is expected
ReadDirectoryGave(expected) ==
    /\ last.err = expected.err
    /\ expected.err = "" => last.out = <<expected.entries>>

ReadDirectoryDone == last.op = "ReadDirectory"

\* for the path "" or "." the complete entry list of the version's root tree
RootListed ==
    (ReadDirectoryDone /\ last.in[2] \in {<<>>, <<".">>}
        /\ GetVersionInfo(data, last.in[1]).err = "") =>
        (last.err = "" /\ last.out = <<GetTree(data, RootTreeOf(data, last.in[1])).entries>>)

\* C24 as stated: ReadDirectory with path "" or "." returns the entry list of
\* the version's root tree in stored order; with another path it returns the
\* entry list of the tree reached by matching every segment against an entry of
\* type tree, and fails with directory-not-found if any segment, the last
\* included, has no tree entry of that name.
C24_ReadDirectoryBySegments ==
    /\ RootListed
    /\ ReadDirectoryDone =>
           ReadDirectoryGave(DirectoryExpected(data, last.in[1], Segments(last.in[2])))

\* C24: ReadDirectory with path "" or "." returns the entry list of the
\* version's root tree in stored order; with another path it cleans the path
\* (drops '.' and empty segments and cancels every segment that a '..' follows,
\* without looking that segment up) and returns the entry list of the tree
\* reached by matching every segment that is left against an entry of type
\* tree, and fails with directory-not-found if one of them, the last included,
\* has no tree entry of that name.
C24_ReadDirectoryResolution ==
    /\ RootListed
    /\ ReadDirectoryDone =>
           ReadDirectoryGave(DirectoryExpected(data, last.in[1], CleanSegments(last.in[2])))

\* a directory listed in a version made by a patch that added a file to it,
\* where the path of a file is not a directory
C24_Witness ==
    /\ ReadDirectoryDone
    /\ last.in = <<2, <<".", "/", "d">>>>
    /\ last.err = ""
    /\ Len(last.out[1]) = 2
    /\ ReadDirectory(data, 2, <<"f">>).err = "directory not found"
    /\ Len(ReadDirectory(data, 2, <<>>).entries) = 2

----------------------------------------------------------------------------
(* MemoryBackend with its byte slices.  A slice is a reference to an array   *)
(* of bytes; here data holds the backend's map from a key to a slice and the *)
(* arrays themselves, and procs holds the slices the callers hold and, for   *)
(* comparison, the plain map from a key to bytes that the calls made so far  *)
(* describe.  Every method holds the mutex mu from its first statement to    *)
(* its return, so calls of concurrent callers take effect one at a time, in  *)
(* some order: each action is one whole call.                                *)

\* how many calls are made and slices written to
MaxMemCalls == 3

MemKeys == { <<"a">>, <<"a", "b">> }
MemPrefixes == { <<>>, <<"a">>, <<"a", "b">>, <<"b">> }
MemBytes == { <<>>, <<"x">>, <<"x", "y">> }

\* make([]byte, len(bytes)) and copy: a new array, the last one of the heap
NewArray(heap, bytes) == Append(heap, bytes)

\* a Put that keeps the caller's slice
MemPutKept(m, key, buf) ==
    [m EXCEPT !.data = [k \in DOMAIN m.data \cup {key} |->
                            IF k = key THEN buf ELSE m.data[k]]]

MemPut(m, key, buf) ==
    With(NewArray(m.heap, m.heap[buf]), LAMBDA heap :
    [data |-> [k \in DOMAIN m.data \cup {key} |->
                   IF k = key THEN Len(heap) ELSE m.data[k]],
     heap |-> heap])

\* Get returns a copy of the stored array
MemGet(m, key) ==
    IF key \notin DOMAIN m.data THEN [err |-> "key not found", slice |-> <<>>, m |-> m]
    ELSE With(NewArray(m.heap, m.heap[m.data[key]]), LAMBDA heap :
         [err |-> "", slice |-> <<Len(heap)>>, m |-> [m EXCEPT !.heap = heap]])

MemExists(m, key) == key \in DOMAIN m.data

\* a Delete that says nothing about an absent key
MemDeleteQuiet(m, key) ==
    [err |-> "", m |-> [m EXCEPT !.data = [k \in DOMAIN m.data \ {key} |-> m.data[k]]]]

MemDelete(m, key) ==
    IF key \notin DOMAIN m.data THEN [err |-> "key not found", m |-> m]
    ELSE [err |-> "", m |-> [m EXCEPT !.data = [k \in DOMAIN m.data \ {key} |-> m.data[k]]]]

\* the keys in the order the map iteration gives them are a set here
MemList(m, prefix) == {key \in DOMAIN m.data : HasPrefix(key, prefix)}

\* Stream, and Read into a slice p the caller made, long enough for all of it
MemStream(m, key) ==
    With(MemGet(m, key), LAMBDA r :
    IF r.err # "" THEN r
    ELSE With(NewArray(r.m.heap, r.m.heap[r.slice[1]]), LAMBDA heap :
         [err |-> "", slice |-> <<Len(heap)>>, m |-> [r.m EXCEPT !.heap = heap]]))

MemClose(m) == [m EXCEPT !.data = EmptyBackend]

\* the bytes under each key
MemContents(m) == [key \in DOMAIN m.data |-> m.heap[m.data[key]]]

InitMem ==
    /\ data = [data |-> EmptyBackend, heap |-> <<>>]
    /\ clock = 0
    /\ last = NoCall
    /\ procs = [started |-> 0, limit |-> MaxMemCalls, held |-> {}, plain |-> EmptyBackend]

MemCalled(op, err, in, out) ==
    [op |-> op, err |-> err, in |-> in, out |-> out, pre |-> data, plain |-> procs.plain]

\* the caller fills a slice of its own and hands it to Put
DoMemPut ==
    \E key \in MemKeys, bytes \in MemBytes :
    \E buf \in {Len(data.heap) + 1} :
        /\ procs.started < procs.limit
        /\ data' = MemPut([data EXCEPT !.heap = NewArray(data.heap, bytes)], key, buf)
        /\ last' = MemCalled("Put", "", <<key, buf>>, <<>>)
        /\ procs' = [procs EXCEPT !.started = @ + 1, !.held = @ \cup {buf},
                                  !.plain = Put(procs.plain, key, bytes)]
        /\ UNCHANGED clock

DoMemGet ==
    \E key \in MemKeys : \E r \in {MemGet(data, key)} :
        /\ procs.started < procs.limit
        /\ data' = r.m
        /\ last' = MemCalled("Get", r.err, <<key>>, r.slice)
        /\ procs' = [procs EXCEPT !.started = @ + 1,
                                  !.held = @ \cup {r.slice[i] : i \in 1..Len(r.slice)}]
        /\ UNCHANGED clock

DoMemStream ==
    \E key \in MemKeys : \E r \in {MemStream(data, key)} :
        /\ procs.started < procs.limit
        /\ data' = r.m
        /\ last' = MemCalled("Stream", r.err, <<key>>, r.slice)
        /\ procs' = [procs EXCEPT !.started = @ + 1,
                                  !.held = @ \cup {r.slice[i] : i \in 1..Len(r.slice)}]
        /\ UNCHANGED clock

DoMemExists ==
    \E key \in MemKeys :
        /\ last' = MemCalled("Exists", "", <<key>>, <<MemExists(data, key)>>)
        /\ UNCHANGED <<data, clock, procs>>

DoMemDelete ==
    \E key \in MemKeys : \E r \in {MemDelete(data, key)} :
        /\ procs.started < procs.limit
        /\ data' = r.m
        /\ last' = MemCalled("Delete", r.err, <<key>>, <<>>)
        /\ procs' = [procs EXCEPT !.started = @ + 1,
                                  !.plain = Delete(procs.plain, key).d]
        /\ UNCHANGED clock

DoMemList ==
    \E prefix \in MemPrefixes :
        /\ last' = MemCalled("List", "", <<prefix>>, <<MemList(data, prefix)>>)
        /\ UNCHANGED <<data, clock, procs>>

DoMemClose ==
    /\ procs.started < procs.limit
    /\ data' = MemClose(data)
    /\ last' = MemCalled("Close", "", <<>>, <<>>)
    /\ procs' = [procs EXCEPT !.started = @ + 1, !.plain = EmptyBackend]
    /\ UNCHANGED clock

\* a caller writes to the first byte of a slice it holds
DoMutate ==
    \E buf \in procs.held :
        /\ procs.started < procs.limit
        /\ data.heap[buf] # <<>>
        /\ data' = [data EXCEPT !.heap[buf][1] = "!"]
        /\ last' = MemCalled("Mutate", "", <<buf>>, <<>>)
        /\ procs' = [procs EXCEPT !.started = @ + 1]
        /\ UNCHANGED clock

NextMem ==
    \/ DoMemPut \/ DoMemGet \/ DoMemStream \/ DoMemExists
    \/ DoMemDelete \/ DoMemList \/ DoMemClose \/ DoMutate

SpecMem == InitMem /\ [][NextMem]_vars

\* C25: after Put(k, buf) a later write of the caller to buf does not change
\* what Get(k) returns, and a write to a slice that Get(k) returned or that was
\* read through Stream(k) does not change what a later Get(k) returns.
C25_NoAliasing ==
    last.op = "Mutate" => MemContents(data) = MemContents(last.pre)

\* the slice a Get returned was written to while its key was stored
C25_Witness ==
    /\ last.op = "Mutate"
    /\ Len(data.heap) = last.in[1]
    /\ \E key \in DOMAIN data.data :
           /\ data.data[key] = last.in[1] - 1
           /\ data.heap[last.in[1]] # MemContents(data)[key]
           /\ last.pre.heap[last.in[1]] = MemContents(data)[key]

----------------------------------------------------------------------------
(* The RPC handlers of the server in front of the repository *)

\* a check for ".." alone
validatePathNoDotDot(path) ==
    IF ContainsDotDot(path) THEN "path traversal not allowed" ELSE ""

validatePath(path) ==
    IF ContainsDotDot(path) THEN "path traversal not allowed"
    ELSE With(Clean(path), LAMBDA cleanPath :
         IF HasPrefix(cleanPath, <<".", ".">>) \/ HasPrefix(cleanPath, <<"/">>)
         THEN "invalid path"
         ELSE "")

\* the patches a MergePatch request carries; one of them is empty
ServerPatches == QueryPatches \cup {<<>>}

\* what a handler answers: calls counts its calls into the repository
Answer(op, err, in, out, calls) ==
    [op |-> op, err |-> err, in |-> in, out |-> out, pre |-> data, calls |-> calls]

ServerMergePatch ==
    \E path \in QueryPaths, patch \in ServerPatches, m \in Messages :
    \E r \in {ApplyPatch(data, patch, Author, m, clock)} :
        /\ GetCurrentVersion(data) < MaxVersion
        /\ IF validatePath(path) # ""
           THEN /\ last' = Answer("server.MergePatch", validatePath(path), <<path, patch>>, <<>>, 0)
                /\ UNCHANGED data
           ELSE IF Len(patch) = 0
           THEN /\ last' = Answer("server.MergePatch", "Patch data is empty", <<path, patch>>, <<>>, 0)
                /\ UNCHANGED data
           ELSE /\ last' = Answer("server.MergePatch", r.err, <<path, patch>>, r.info, 1)
                /\ data' = r.d
        /\ UNCHANGED <<clock, procs>>

ServerReadDirectory ==
    \E path \in QueryPaths :
    \E r \in {ReadDirectory(data, GetCurrentVersion(data), path)} :
        /\ last' =
               IF validatePath(path) # ""
               THEN Answer("server.ReadDirectory", validatePath(path), <<path>>, <<>>, 0)
               ELSE IF GetCurrentVersion(data) = 0
               THEN Answer("server.ReadDirectory", "no repository versions exist", <<path>>, <<>>, 1)
               ELSE Answer("server.ReadDirectory", r.err, <<path>>,
                           IF r.err = "" THEN <<r.entries>> ELSE <<>>, 2)
        /\ UNCHANGED <<data, clock, procs>>

ServerReadFile ==
    \E path \in QueryPaths :
    \E r \in {ReadFile(data, GetCurrentVersion(data), path)} :
        /\ last' =
               IF validatePath(path) # ""
               THEN Answer("server.ReadFile", validatePath(path), <<path>>, <<>>, 0)
               ELSE IF GetCurrentVersion(data) = 0
               THEN Answer("server.ReadFile", "no repository versions exist", <<path>>, <<>>, 1)
               ELSE Answer("server.ReadFile", r.err, <<path>>,
                           IF r.err = "" THEN <<r.content>> ELSE <<>>, 2)
        /\ UNCHANGED <<data, clock, procs>>

NextServer ==
    \/ QueryCreateCommitFromFileSystem
    \/ ServerMergePatch \/ ServerReadDirectory \/ ServerReadFile

SpecServer == Init /\ [][NextServer]_vars

\* the last call was a request to one of the three handlers
Requested == last.op \in {"server.MergePatch", "server.ReadDirectory", "server.ReadFile"}

\* the path has two dots in a row; the path starts at the root
HasDotDot(path) == \E i \in 1..(Len(path) - 1) : SubSeq(path, i, i + 1) = <<".", ".">>
IsAbsolute(path) == path # <<>> /\ path[1] = "/"

\* C27: the handlers ReadFile, ReadDirectory and MergePatch reject every
\* request path that contains '..' (path traversal not allowed) or that is
\* absolute (invalid path) before any call into the repository, so that such a
\* request neither reads nor changes the repository.
C27_BadRequestPathRejected ==
    /\ (Requested /\ HasDotDot(last.in[1])) =>
           (last.err = "path traversal not allowed" /\ last.calls = 0 /\ data = last.pre)
    /\ (Requested /\ IsAbsolute(last.in[1]) /\ ~HasDotDot(last.in[1])) =>
           (last.err = "invalid path" /\ last.calls = 0 /\ data = last.pre)

\* an absolute path of a file that exists, asked for when there is a version
C27_Witness ==
    /\ last.op = "server.ReadFile"
    /\ last.in[1] = <<"/", "f">>
    /\ last.err = "invalid path"
    /\ ReadFile(data, GetCurrentVersion(data), <<"/", "f">>).err = ""

----------------------------------------------------------------------------
(* The two patch appliers, each given a parsed patch and an original: the    *)
(* storage layer's works on bytes, the merge package's on a file             *)

\* merge.ApplyPatch on the file at filePath: file.kind is "missing", "file"
\* or "dir"; the result is the error and the file afterwards
MergeApplyPatch(file, patch) ==
    LET content == IF file.kind = "file" THEN file.content ELSE <<>>
        split == Split(content, "\n")
        originalLines ==
            IF content = <<>> THEN <<>>
            ELSE IF split[Len(split)] = <<>> THEN SubSeq(split, 1, Len(split) - 1)
            ELSE split
        n == Len(originalLines)
        \* the copying loops: up to a limit, and to the end
        RECURSIVE copy(_, _, _)
        copy(result, originalIndex, limit) ==
            IF originalIndex < limit /\ originalIndex < n
            THEN copy(Append(result, originalLines[originalIndex + 1]), originalIndex + 1, limit)
            ELSE [result |-> result, originalIndex |-> originalIndex]
        \* the loop over hunk.Lines
        RECURSIVE lines(_, _, _)
        lines(result, originalIndex, rest) ==
            IF rest = <<>> THEN [result |-> result, originalIndex |-> originalIndex]
            ELSE IF Head(rest).Type = " " /\ originalIndex < n
            THEN lines(Append(result, originalLines[originalIndex + 1]), originalIndex + 1, Tail(rest))
            ELSE IF Head(rest).Type = "-" /\ originalIndex < n
            THEN lines(result, originalIndex + 1, Tail(rest))
            ELSE IF Head(rest).Type = "+"
            THEN lines(Append(result, Head(rest).Content), originalIndex, Tail(rest))
            ELSE lines(result, originalIndex, Tail(rest))
        \* the loop over patch.Hunks
        RECURSIVE hunks(_, _, _)
        hunks(result, originalIndex, rest) ==
            IF rest = <<>> THEN [result |-> result, originalIndex |-> originalIndex]
            ELSE LET c == copy(result, originalIndex, Head(rest).OldStart - 1)
                     l == lines(c.result, c.originalIndex, Head(rest).Lines)
                 IN hunks(l.result, l.originalIndex, Tail(rest))
        h == hunks(<<>>, 0, patch.Hunks)
        result == copy(h.result, h.originalIndex, n).result
        newContent == IF Len(result) > 0 THEN Join(result, <<"\n">>) \o <<"\n">> ELSE <<>>
    IN IF file.kind = "dir"
       THEN [err |-> "failed to read existing file", file |-> file]
       ELSE [err |-> "", file |-> [kind |-> "file", content |-> newContent]]

MaxHunkLines == 2

\* the lines of a hunk: context and deletion carry a text that is on no
\* original line, so a comparison with the original would show
HunkLineKinds ==
    { [Type |-> " ", Content |-> <<"q">>], [Type |-> "-", Content |-> <<"q">>],
      [Type |-> "+", Content |-> <<"y">>] }

HunkAt(oldStart, hunkLines) ==
    [OldStart |-> oldStart, OldCount |-> 1, NewStart |-> oldStart, NewCount |-> 1,
     Lines |-> hunkLines]

\* no hunk, one hunk anywhere from 0 to past the end, or two hunks: in order
\* (1 then 2, 1 then 3), out of order (3 then 2) and overlapping (3 then 3)
HunkLists ==
    {<<>>}
    \cup {<<HunkAt(s, l)>> : s \in 0..3, l \in SeqsUpTo(HunkLineKinds, MaxHunkLines)}
    \cup {<<HunkAt(s1, l1), HunkAt(s2, l2)>> :
              s1 \in {1, 3}, s2 \in 2..3, l1 \in SeqsUpTo(HunkLineKinds, MaxHunkLines),
              l2 \in SeqsUpTo(HunkLineKinds, MaxHunkLines)}

ParsedPatches ==
    {[Header |-> [OldFile |-> <<"f">>, NewFile |-> <<"f">>], Hunks |-> h] : h \in HunkLists}

\* empty, three lines, no final newline, an empty last line, a lone newline
ApplyContents ==
    { <<>>, <<"a", "\n", "b", "\n", "c", "\n">>, <<"a", "\n", "b">>,
      <<"a", "\n", "\n">>, <<"\n">> }

\* what is at the path the merge package patches
Files ==
    {[kind |-> "missing", content |-> <<>>], [kind |-> "dir", content |-> <<>>]}
    \cup {[kind |-> "file", content |-> c] : c \in ApplyContents}

\* the paths of the files the tree rewrite is asked to set: existing files,
\* new files in existing and in new directories, a name that a directory has,
\* a file name used as a directory, an empty segment
RewritePaths ==
    { <<"f">>, <<"d", "/", "g">>, <<"d", "/", "e", "/", "h">>, <<"n">>,
      <<"d", "/", "n">>, <<"x", "/", "n">>, <<"x", "/", "y", "/", "n">>,
      <<"x", "/", "y", "/", "z", "/", "n">>, <<"d", "/", "e", "/", "y", "/", "n">>,
      <<"s">>, <<"f", "/", "n">>, <<"d", "/", "/", "g">>, <<"/", "d", "/", "g", "/">> }

\* the backend holds one snapshot, whose root tree the rewrite starts from
InitApply ==
    /\ data = CreateCommitFromFileSystem(EmptyBackend, <<FS1>>, Author, <<"m", "1">>, 0).d
    /\ clock = 0
    /\ procs = NoCalls
    /\ \/ \E file \in Files, patch \in ParsedPatches :
               last = [NoCall EXCEPT !.op = "input", !.in = <<file, patch>>]
       \/ \E path \in RewritePaths :
               last = [NoCall EXCEPT !.op = "path", !.in = <<path>>]

\* the storage layer reads a missing file as empty content
DoApplyParsedPatch ==
    /\ last.op = "input"
    /\ last.in[1].kind # "dir"
    /\ last' = [op |-> "applyPatchToContent", err |-> "", in |-> last.in,
                out |-> <<applyPatchToContent(last.in[1].content, last.in[2])>>,
                pre |-> data]
    /\ UNCHANGED <<data, clock, procs>>

DoMergeApplyPatch ==
    /\ last.op = "input"
    /\ \E r \in {MergeApplyPatch(last.in[1], last.in[2])} :
           last' = [op |-> "merge.ApplyPatch", err |-> r.err, in |-> last.in,
                    out |-> <<r.file>>, pre |-> data]
    /\ UNCHANGED <<data, clock, procs>>

\* updateTreeWithBlob of a stored blob at a path, from the root tree of the
\* snapshot: out is the result with the Puts it made
DoUpdateTreeWithBlob ==
    /\ last.op = "path"
    /\ \E path \in {last.in[1]} : \E blobPut \in {StoreBlob(<<"y", "\n">>)} :
       \E r \in {updateTreeWithBlob(Put(data, blobPut.key, blobPut.bytes),
                                    RootTreeOf(data, 1), path, blobPut.key.h, 2, clock)} :
           /\ data' = PutAll(Put(data, blobPut.key, blobPut.bytes), r.puts)
           /\ last' = [op |-> "updateTreeWithBlob", err |-> r.err, in |-> <<path>>,
                       out |-> <<r>>, pre |-> data]
    /\ UNCHANGED <<clock, procs>>

NextApply == DoApplyParsedPatch \/ DoMergeApplyPatch \/ DoUpdateTreeWithBlob

SpecApply == InitApply /\ [][NextApply]_vars

----------------------------------------------------------------------------
(* Properties of patch application *)

\* the lines of a content: each ends at a newline or at the end of the content
RECURSIVE LinesOf(_)
LinesOf(content) ==
    IF content = <<>> THEN <<>>
    ELSE IF \E i \in 1..Len(content) : content[i] = "\n"
    THEN LET k == CHOOSE i \in 1..Len(content) :
                      content[i] = "\n" /\ \A j \in 1..(i - 1) : content[j] # "\n"
         IN <<SubSeq(content, 1, k - 1)>> \o LinesOf(SubSeq(content, k + 1, Len(content)))
    ELSE <<content>>

\* the original lines from the cursor up to index limit; the line at the cursor
LinesUpTo(orig, cursor, limit) ==
    IF cursor < limit /\ cursor < Len(orig)
    THEN SubSeq(orig, cursor + 1, IF limit < Len(orig) THEN limit ELSE Len(orig))
    ELSE <<>>
LineAt(orig, cursor) == IF cursor < Len(orig) THEN <<orig[cursor + 1]>> ELSE <<>>

\* the positional algorithm: what is emitted from the cursor on
RECURSIVE EmitLines(_, _, _, _)
EmitLines(orig, cursor, hunkLines, rest) ==
    IF hunkLines = <<>>
    THEN IF rest = <<>>
         THEN LinesUpTo(orig, cursor, Len(orig))
         ELSE LET start == Head(rest).OldStart - 1
                  next == IF cursor < start /\ cursor < Len(orig)
                          THEN (IF start < Len(orig) THEN start ELSE Len(orig))
                          ELSE cursor
              IN LinesUpTo(orig, cursor, start)
                 \o (IF Head(rest).Lines = <<>>
                     THEN EmitLines(orig, next, <<>>, Tail(rest))
                     ELSE EmitLines(orig, next, Head(rest).Lines, Tail(rest)))
    ELSE IF Head(hunkLines).Type = " "
    THEN LineAt(orig, cursor) \o EmitLines(orig, cursor + 1, Tail(hunkLines), rest)
    ELSE IF Head(hunkLines).Type = "-"
    THEN EmitLines(orig, cursor + 1, Tail(hunkLines), rest)
    ELSE <<Head(hunkLines).Content>> \o EmitLines(orig, cursor, Tail(hunkLines), rest)

\* the emitted lines, each followed by a newline
RECURSIVE Terminated(_)
Terminated(emitted) ==
    IF emitted = <<>> THEN <<>> ELSE Head(emitted) \o <<"\n">> \o Terminated(Tail(emitted))

PositionalReference(content, patch) ==
    Terminated(EmitLines(LinesOf(content), 0, <<>>, patch.Hunks))

\* C28: patch application equals the positional algorithm for every original
\* and every hunk list: the original is copied up to oldStart-1 before each
\* hunk, a ' ' line emits the original line at the cursor and advances, a '-'
\* line advances, a '+' line emits its own text, the rest of the original
\* follows the last hunk, and each emitted line ends in one newline; context
\* and deleted lines are never compared with the original.
C28_PositionalApplication ==
    (last.op = "applyPatchToContent" /\ last.in[1] \in Files) =>
        last.out[1] = PositionalReference(last.in[1].content, last.in[2])

\* a context line and a deletion whose texts are not in the original, applied
\* at line 2 of three
C28_Witness ==
    /\ last.op = "applyPatchToContent" /\ last.in[1] \in Files
    /\ last.in[1].content = <<"a", "\n", "b", "\n", "c", "\n">>
    /\ Len(last.in[2].Hunks) = 2
    /\ last.in[2].Hunks[1].Lines = <<[Type |-> " ", Content |-> <<"q">>]>>
    /\ last.in[2].Hunks[2].OldStart = 3
    /\ last.in[2].Hunks[2].Lines =
           <<[Type |-> "-", Content |-> <<"q">>], [Type |-> "+", Content |-> <<"y">>]>>
    /\ last.out[1] = <<"a", "\n", "b", "\n", "y", "\n">>

\* C29: the two appliers agree: for every original content and parsed patch,
\* the bytes of applyPatchToContent are the bytes merge.ApplyPatch writes to
\* a file that held that content, a missing file standing for empty content.
C29_AppliersAgree ==
    (last.op = "merge.ApplyPatch" /\ last.in[1].kind # "dir") =>
        /\ last.err = ""
        /\ last.out[1] = [kind |-> "file",
                          content |-> applyPatchToContent(last.in[1].content, last.in[2])]

\* a missing file patched into existence
C29_Witness ==
    /\ last.op = "merge.ApplyPatch"
    /\ last.in[1].kind = "missing"
    /\ last.in[2].Hunks # <<>>
    /\ last.out[1] = [kind |-> "file", content |-> <<"y", "\n">>]


\* C30: in every state reached by any sequence and any interleaving of
\* CreateCommitFromFileSystem and ApplyPatch calls, the Version field stored
\* inside the commit that version/info/<n> points to equals n.
C30_CommitVersionIsItsNumber ==
    \A n \in StoredVersions(data) :
        With(GetVersionInfo(data, n), LAMBDA vi :
            (vi.err = "" /\ GetCommit(data, vi.info[1].CommitHash).err = "") =>
                GetCommit(data, vi.info[1].CommitHash).commit[1].Version = n)


----------------------------------------------------------------------------
(* Properties of the reverse mapping and of versions that are deleted *)

\* version/info/<n> is stored and names the commit hash
NamesCommit(d, n, h) ==
    n \in StoredVersions(d) /\ GetVersionInfo(d, n).info[1].CommitHash = h

\* C31: after any sequence of completed CreateVersion and DeleteVersion calls,
\* with any commit hashes, the same one more than once included,
\* GetVersionByCommit(h) returns n if and only if version/info/<n> is stored
\* with commit hash h; every stored version is found through the reverse
\* mapping of its commit hash.
C31_ReverseLookupConsistent ==
    \A h \in CommitHashes, n \in 1..MaxVersion :
        (GetVersionByCommit(data, h).err = "" /\ GetVersionByCommit(data, h).version = n)
            <=> NamesCommit(data, n, h)

\* the values under the keys of d in a namespace
Under(d, prefix) == [k \in List(d, prefix) |-> d[k]]

\* C32: DeleteVersion is all-or-nothing: whenever DeleteVersion(n) returns an
\* error, version/info/<n>, every version/hash/* key and version/current are
\* as they were before the call.
C32_DeleteAllOrNothing ==
    (last.op = "DeleteVersion" /\ last.err # "") =>
        /\ Get(data, InfoKey(last.in[1])) = Get(last.pre, InfoKey(last.in[1]))
        /\ Under(data, "version/hash/") = Under(last.pre, "version/hash/")
        /\ Get(data, CurrentKey) = Get(last.pre, CurrentKey)

\* C33: a version number is never reassigned: across any sequence of
\* CreateVersion and DeleteVersion calls, once version n has been reported
\* with commit hash h, no later state has version/info/<n> pointing to a
\* commit hash other than h.
C33_NumberNeverReassigned ==
    \A n \in StoredVersions(data) :
        n <= Len(procs.hist) => \A h \in procs.hist[n] : NamesCommit(data, n, h)


----------------------------------------------------------------------------
(* Properties of the trees that patches rewrite *)

\* no two entries of the tree, or of any tree it reaches, have the same name
RECURSIVE NamesUnique(_, _)
NamesUnique(d, hash) ==
    With(GetTree(d, hash), LAMBDA r :
        r.err = "" =>
            /\ \A i, j \in 1..Len(r.entries) :
                   i # j => r.entries[i].Name # r.entries[j].Name
            /\ \A i \in 1..Len(r.entries) :
                   r.entries[i].Type = ObjectTypeTree => NamesUnique(d, r.entries[i].Hash))

\* C34: entry names stay unique: starting from a filesystem snapshot, after
\* any sequence of ApplyPatch calls no stored tree reachable from any version
\* has two entries with the same name, whatever their types.
C34_EntryNamesUnique ==
    \A n \in StoredVersions(data) :
        (GetVersionInfo(data, n).err = ""
            /\ GetCommit(data, GetVersionInfo(data, n).info[1].CommitHash).err = "")
        => NamesUnique(data, RootTreeOf(data, n))


----------------------------------------------------------------------------
(* Properties of the hunk bodies ParsePatch gives *)

\* the positions of the hunk headers among the lines, in order
RECURSIVE HunkHeadersFrom(_, _)
HunkHeadersFrom(lines, i) ==
    IF i > Len(lines) THEN <<>>
    ELSE (IF MatchHunkHeader(lines[i]).ok THEN <<i>> ELSE <<>>)
         \o HunkHeadersFrom(lines, i + 1)

\* the lines from position i to position j that start with '+', '-' or ' ',
\* each with its first character as type and the rest as content
RECURSIVE BodyLines(_, _, _)
BodyLines(lines, i, j) ==
    IF i > j THEN <<>>
    ELSE (IF lines[i] # <<>> /\ lines[i][1] \in {"+", "-", " "}
          THEN <<[Type |-> lines[i][1], Content |-> Tail(lines[i])]>>
          ELSE <<>>)
         \o BodyLines(lines, i + 1, j)

\* the body of the k-th hunk: up to the next hunk header, or to the end
HunkBody(lines, at, k) ==
    BodyLines(lines, at[k] + 1, IF k < Len(at) THEN at[k + 1] - 1 ELSE Len(lines))

\* the file names the lines give
HeaderOf(lines) ==
    ParseLines([Header |-> [OldFile |-> <<>>, NewFile |-> <<>>],
                Hunks |-> <<>>, cur |-> <<>>], lines).Header

\* C35: ParsePatch keeps hunk bodies intact: after a hunk header, every
\* following line that starts with '+', '-' or ' ', up to the next hunk header,
\* is appended in order to that hunk's lines with its first character as type
\* and the rest as content, and no line inside a hunk body changes the parsed
\* header's oldFile or newFile.
C35_HunkBodiesIntact ==
    (last.op = "ParsePatch" /\ last.err = "") =>
        With(ScannedLines(last.in[1]), LAMBDA lines :
        With(HunkHeadersFrom(lines, 1), LAMBDA at :
            at # <<>> =>
                /\ Len(last.out[1].Hunks) = Len(at)
                /\ \A k \in 1..Len(at) :
                       k <= Len(last.out[1].Hunks) =>
                           last.out[1].Hunks[k].Lines = HunkBody(lines, at, k)
                /\ last.out[1].Header = HeaderOf(SubSeq(lines, 1, at[1] - 1))))


----------------------------------------------------------------------------
(* Properties of what a MergePatch request changes *)

\* the files of the snapshot and the file the patches may add
ServedFiles == {<<"f">>, <<"d", "/", "g">>, <<"d", "/", "n">>}

\* C36: a successful MergePatch request changes only the file named by the
\* Path field of the request: in the version it creates, every other file has
\* the content it had in the previous version.
C36_OnlyRequestPathChanged ==
    (last.op = "server.MergePatch" /\ last.err = "") =>
        \A file \in ServedFiles :
            file # Clean(last.in[1]) =>
                ReadFile(data, GetCurrentVersion(data), file)
                    = ReadFile(last.pre, GetCurrentVersion(last.pre), file)


----------------------------------------------------------------------------
(* The workspaces of the server: procs.workspaces is server.workspaces, the  *)
(* map from workspace id to the workspace record.  The git repository of a   *)
(* workspace lives on disk; what the file system and git answer is chosen    *)
(* freely among the answers they can give.                                   *)

WorkspaceIds == {"w1", "w2"}

\* the paths of the requests: a file, a directory, a file in it, a path that
\* is not in the repository, a path validatePath rejects
WorkspacePaths ==
    { <<"f">>, <<"d">>, <<"d", "/", "g">>, <<"x">>, <<".", ".", "/", "f">> }

\* what the disk and git do during AddTrackedPath: all goes well, the copy
\* fails, the write of .poon-workspace fails, git add fails, git commit
\* fails, git commit finds nothing to commit
DiskOutcomes ==
    {"ok", "copy fails", "write fails", "git add fails", "git commit fails",
     "nothing to commit"}

InitWorkspace ==
    /\ data = CreateCommitFromFileSystem(EmptyBackend, <<FS3>>, Author, <<"m", "1">>, 0).d
    /\ clock = 0
    /\ last = NoCall
    /\ procs = [workspaces |-> [id \in {} |-> 0]]

Contains(list, path) == \E i \in 1..Len(list) : list[i] = path

\* AddTrackedPath on the workspaces ws and the backend d: the answer and the
\* workspaces afterwards
AddTrackedPath(ws, d, id, path, disk) ==
    With(GetCurrentVersion(d), LAMBDA currentVersion :
    With([w \in DOMAIN ws |->
             IF w = id THEN [ws[w] EXCEPT !.TrackedPaths = Append(@, path)] ELSE ws[w]],
         LAMBDA added :
    IF validatePath(path) # ""
    THEN [Success |-> FALSE, Message |-> "Invalid path", ws |-> ws]
    ELSE IF id \notin DOMAIN ws
    THEN [Success |-> FALSE, Message |-> "Workspace not found", ws |-> ws]
    ELSE IF Contains(ws[id].TrackedPaths, path)
    THEN [Success |-> FALSE, Message |-> "Path is already tracked", ws |-> ws]
    ELSE IF ReadDirectory(d, currentVersion, path).err # ""
            /\ ReadFile(d, currentVersion, path).err # ""
    THEN [Success |-> FALSE, Message |-> "Path not found in monorepo", ws |-> ws]
    ELSE IF disk = "copy fails"
    THEN [Success |-> FALSE, Message |-> "Failed to copy path to git repo", ws |-> added]
    ELSE IF disk = "write fails"
    THEN [Success |-> FALSE, Message |-> "Failed to update metadata file", ws |-> added]
    ELSE IF disk = "git add fails"
    THEN [Success |-> FALSE, Message |-> "Failed to add files to git", ws |-> added]
    ELSE IF disk = "git commit fails"
    THEN [Success |-> FALSE, Message |-> "Failed to commit changes", ws |-> added]
    ELSE IF disk = "nothing to commit"
    THEN [Success |-> TRUE, Message |-> "Path was already in workspace", ws |-> added]
    ELSE [Success |-> TRUE, Message |-> "Successfully added to workspace", ws |-> added]))

\* CreateWorkspace: a new id, the tracked paths of the request; the git
\* repository may fail to initialize
DoCreateWorkspace ==
    \E id \in WorkspaceIds \ DOMAIN procs.workspaces :
    \E trackedPaths \in {<<>>, << <<"f">> >>}, initialized \in BOOLEAN :
        /\ procs' = IF initialized
                    THEN [procs EXCEPT !.workspaces =
                             [w \in DOMAIN @ \cup {id} |->
                                 IF w = id THEN [ID |-> id, TrackedPaths |-> trackedPaths]
                                 ELSE @[w]]]
                    ELSE procs
        /\ last' = [op |-> "CreateWorkspace",
                    err |-> IF initialized THEN ""
                            ELSE "Failed to initialize git repository",
                    in |-> <<trackedPaths>>, out |-> IF initialized THEN <<id>> ELSE <<>>,
                    pre |-> data, ws |-> procs.workspaces]
        /\ UNCHANGED <<data, clock>>

DoAddTrackedPath ==
    \E id \in WorkspaceIds, path \in WorkspacePaths, disk \in DiskOutcomes :
    \E r \in {AddTrackedPath(procs.workspaces, data, id, path, disk)} :
        /\ procs' = [procs EXCEPT !.workspaces = r.ws]
        /\ last' = [op |-> "AddTrackedPath",
                    err |-> IF r.Success THEN "" ELSE r.Message,
                    in |-> <<id, path>>, out |-> <<r.Message>>,
                    pre |-> data, ws |-> procs.workspaces]
        /\ UNCHANGED <<data, clock>>

NextWorkspace == DoCreateWorkspace \/ DoAddTrackedPath

SpecWorkspace == InitWorkspace /\ [][NextWorkspace]_vars

\* C37: AddTrackedPath is all-or-nothing on the workspace record: whenever it
\* answers Success=false, the TrackedPaths of the workspace are as before the
\* call, so that a retry of the same request is not rejected as already
\* tracked.
C37_AddTrackedPathAllOrNothing ==
    (last.op = "AddTrackedPath" /\ last.err # "" /\ last.in[1] \in DOMAIN last.ws) =>
        /\ procs.workspaces[last.in[1]].TrackedPaths = last.ws[last.in[1]].TrackedPaths
        /\ last.err # "Path is already tracked" =>
               AddTrackedPath(procs.workspaces, data, last.in[1], last.in[2], "ok").Message
                   # "Path is already tracked"


----------------------------------------------------------------------------
(* Properties of the bounds of patch application and of the tree rewrite *)

\* the values the original-line cursor takes: after the copy before each
\* hunk, after each hunk line, after the copy of the rest
RECURSIVE CursorsFrom(_, _, _, _)
CursorsFrom(st, orig, hunkLines, rest) ==
    IF hunkLines # <<>>
    THEN With(ApplyPatchLine(st, orig, Head(hunkLines)), LAMBDA next :
             <<next.i>> \o CursorsFrom(next, orig, Tail(hunkLines), rest))
    ELSE IF rest # <<>>
    THEN With(CopyUpTo(st, orig, Head(rest).OldStart - 1), LAMBDA next :
             <<next.i>> \o CursorsFrom(next, orig, Head(rest).Lines, Tail(rest)))
    ELSE <<CopyUpTo(st, orig, Len(orig)).i>>

Cursors(originalContent, patch) ==
    <<0>> \o CursorsFrom([result |-> <<>>, i |-> 0], OriginalLines(originalContent),
                         <<>>, patch.Hunks)

\* the trees a rewrite stored: every level of the recursion, and the parent
\* it returns to, ends in one StoreTree
RECURSIVE TreesStored(_)
TreesStored(puts) ==
    IF puts = <<>> THEN 0
    ELSE (IF Head(puts).bytes.type = ObjectTypeTree THEN 1 ELSE 0) + TreesStored(Tail(puts))

\* C38: patch application and tree rewriting are total and terminate: for
\* every parsed patch (any hunk order, overlapping hunks, oldStart of 0 or
\* beyond the end of the file) and every original content the applier returns
\* without error, its original-line cursor never decreasing and never
\* exceeding the number of original lines; and the recursive tree rewrite
\* performs at most one recursion level per path segment.
C38_TotalAndBounded ==
    /\ (last.op = "applyPatchToContent" /\ last.in[1] \in Files) =>
           /\ last.err = ""
           /\ With(Cursors(last.in[1].content, last.in[2]), LAMBDA cursors :
                  /\ \A k \in 1..(Len(cursors) - 1) : cursors[k] <= cursors[k + 1]
                  /\ \A k \in 1..Len(cursors) :
                         cursors[k] <= Len(LinesOf(last.in[1].content)))
    /\ last.op = "updateTreeWithBlob" =>
           TreesStored(last.out[1].puts) <= Len(Split(TrimSlash(last.in[1]), "/"))

\* two deletions at line 3 of three, then a hunk further up: the cursor is at
\* the end when the second deletion and the second hunk come
C38_Witness ==
    /\ last.op = "applyPatchToContent" /\ last.in[1] \in Files
    /\ last.in[1].content = <<"a", "\n", "b", "\n", "c", "\n">>
    /\ Len(last.in[2].Hunks) = 2
    /\ last.in[2].Hunks[1].OldStart = 3
    /\ last.in[2].Hunks[1].Lines =
           <<[Type |-> "-", Content |-> <<"q">>], [Type |-> "-", Content |-> <<"q">>]>>
    /\ last.in[2].Hunks[2].OldStart = 2
    /\ last.in[2].Hunks[2].Lines = <<[Type |-> " ", Content |-> <<"q">>]>>
    /\ Cursors(last.in[1].content, last.in[2]) = <<0, 2, 3, 3, 3, 3, 3>>
    /\ last.out[1] = <<"a", "\n", "b", "\n">>

====
